---- MODULE Spec2Model ----
(***************************************************************************)
(* A model of goredislite: the RESP2 codec (internal/resp2/parser.go), the *)
(* key-value store (internal/store/store.go), the command handler          *)
(* (internal/handler/handler.go), the connection manager                   *)
(* (internal/connection/manager.go) and the per-connection loop of the     *)
(* server (internal/server/server.go).                                     *)
(*                                                                         *)
(* A Go string is modelled as the sequence of its bytes (0..255), so that  *)
(* formatting, parsing and upper-casing are computed and not assumed.      *)
(***************************************************************************)
EXTENDS Integers, Sequences, FiniteSets, TLC

(***************************************************************************)
(* Bytes and byte strings                                                  *)
(***************************************************************************)
NUL == 0
LF == 10
CR == 13
CRLF == <<CR, LF>>

\* "%d" of fmt.Sprintf: the base-10 text of an integer
RECURSIVE FormatNat(_)
FormatNat(n) ==
    IF n < 10 THEN <<48 + n>>
    ELSE FormatNat(n \div 10) \o <<48 + (n % 10)>>

FormatInt(n) ==
    IF n < 0 THEN <<45>> \o FormatNat(0 - n) ELSE FormatNat(n)

IsDigit(b) == b >= 48 /\ b <= 57

RECURSIVE DigitsVal(_)
DigitsVal(s) ==
    IF s = <<>> THEN 0
    ELSE DigitsVal(SubSeq(s, 1, Len(s) - 1)) * 10 + (s[Len(s)] - 48)

\* strconv.Atoi / strconv.ParseInt(s, 10, 64): optional sign, then one or
\* more decimal digits.  The range error of either is not modelled: every
\* number the model parses fits the integers of the checker.
Atoi(s) ==
    LET signed == s # <<>> /\ s[1] \in {43, 45}
        body == IF signed THEN Tail(s) ELSE s
    IN  IF body = <<>> \/ (\E i \in 1..Len(body) : ~IsDigit(body[i]))
        THEN [ok |-> FALSE, n |-> 0]
        ELSE [ok |-> TRUE,
              n |-> IF signed /\ s[1] = 45 THEN 0 - DigitsVal(body)
                    ELSE DigitsVal(body)]

\* strings.ToUpper on ASCII text
ToUpperByte(b) == IF b >= 97 /\ b <= 122 THEN b - 32 ELSE b
ToUpper(s) == [i \in 1..Len(s) |-> ToUpperByte(s[i])]

\* "%c" of a byte: the UTF-8 encoding of the code point of that number
FormatRune(b) ==
    IF b < 128 THEN <<b>> ELSE <<192 + (b \div 64), 128 + (b % 64)>>

\* the elements of a sequence
Range(s) == {s[i] : i \in 1..Len(s)}

\* strings.Contains
Contains(s, sub) ==
    \E i \in 0..(Len(s) - Len(sub)) : SubSeq(s, i + 1, i + Len(sub)) = sub

(***************************************************************************)
(* RESPValue (parser.go, type RESPValue)                                   *)
(***************************************************************************)
RESPValue(type, str, int, array, null) ==
    [Type |-> type, Str |-> str, Int |-> int, Array |-> array, Null |-> null]

MkSimpleString(s) == RESPValue("SimpleString", s, 0, <<>>, FALSE)
MkError(s) == RESPValue("Error", s, 0, <<>>, FALSE)
MkInteger(n) == RESPValue("Integer", <<>>, n, <<>>, FALSE)
MkBulkString(s) == RESPValue("BulkString", s, 0, <<>>, FALSE)
MkNullBulkString == RESPValue("NullBulkString", <<>>, 0, <<>>, TRUE)
MkArray(a) == RESPValue("Array", <<>>, 0, a, FALSE)
MkNullArray == RESPValue("Array", <<>>, 0, <<>>, TRUE)
\* the nil *RESPValue a failed Parse returns
NilValue == RESPValue("nil", <<>>, 0, <<>>, FALSE)

(***************************************************************************)
(* Serialize                                                               *)
(***************************************************************************)
RECURSIVE Serialize(_)
RECURSIVE SerializeElements(_)
SerializeElements(a) ==
    IF a = <<>> THEN <<>>
    ELSE Serialize(Head(a)) \o SerializeElements(Tail(a))

ErrUnknownType == <<45, 69, 82, 82, 32, 117, 110, 107, 110, 111, 119, 110, 32, 82, 69, 83, 80, 50, 32, 116, 121, 112, 101, 13, 10>>

Serialize(value) ==
    CASE value.Type = "SimpleString" -> <<43>> \o value.Str \o CRLF
      [] value.Type = "Error" -> <<45>> \o value.Str \o CRLF
      [] value.Type = "Integer" -> <<58>> \o FormatInt(value.Int) \o CRLF
      [] value.Type = "BulkString" ->
            <<36>> \o FormatInt(Len(value.Str)) \o CRLF \o value.Str \o CRLF
      [] value.Type = "NullBulkString" -> <<36, 45, 49>> \o CRLF
      [] value.Type = "Array" ->
            IF value.Null THEN <<42, 45, 49>> \o CRLF
            ELSE <<42>> \o FormatInt(Len(value.Array)) \o CRLF
                     \o SerializeElements(value.Array)
      [] OTHER -> ErrUnknownType

(***************************************************************************)
(* Parse.  The reader is the sequence of bytes not yet consumed; a result  *)
(* is [err, val, rest]: err is the text of the error (err.Error()), NilErr *)
(* on success.  EOF is io.EOF, ErrUnexpectedEOF is io.ErrUnexpectedEOF.    *)
(***************************************************************************)
\* the nil error
NilErr == <<>>
\* "EOF"
EOF == <<69, 79, 70>>
\* "unexpected EOF"
ErrUnexpectedEOF == <<117, 110, 101, 120, 112, 101, 99, 116, 101, 100, 32, 69, 79, 70>>
\* "invalid line ending, expected \r\n"
ErrLineEnding == <<105, 110, 118, 97, 108, 105, 100, 32, 108, 105, 110, 101, 32, 101, 110, 100, 105, 110, 103, 44, 32, 101, 120, 112, 101, 99, 116, 101, 100, 32, 92, 114, 92, 110>>
\* "invalid RESP2 type indicator: "
ErrTypeIndicator == <<105, 110, 118, 97, 108, 105, 100, 32, 82, 69, 83, 80, 50, 32, 116, 121, 112, 101, 32, 105, 110, 100, 105, 99, 97, 116, 111, 114, 58, 32>>
\* "invalid integer format: "
ErrIntegerFormat == <<105, 110, 118, 97, 108, 105, 100, 32, 105, 110, 116, 101, 103, 101, 114, 32, 102, 111, 114, 109, 97, 116, 58, 32>>
\* "invalid bulk string length: "
ErrBulkLength == <<105, 110, 118, 97, 108, 105, 100, 32, 98, 117, 108, 107, 32, 115, 116, 114, 105, 110, 103, 32, 108, 101, 110, 103, 116, 104, 58, 32>>
\* "invalid array length: "
ErrArrayLength == <<105, 110, 118, 97, 108, 105, 100, 32, 97, 114, 114, 97, 121, 32, 108, 101, 110, 103, 116, 104, 58, 32>>

ParseOK(v, rest) == [err |-> NilErr, val |-> v, rest |-> rest]
ParseFail(e, rest) == [err |-> e, val |-> NilValue, rest |-> rest]

\* position of the first LF of buf, 0 when there is none
IndexLF(buf) ==
    IF \E i \in 1..Len(buf) : buf[i] = LF
    THEN CHOOSE i \in 1..Len(buf) :
            buf[i] = LF /\ \A j \in 1..(i - 1) : buf[j] # LF
    ELSE 0

\* readLine: reader.ReadString('\n'), then the check of the last two bytes
readLine(buf) ==
    LET i == IndexLF(buf)
    IN  IF i = 0 THEN [err |-> EOF, line |-> <<>>, rest |-> <<>>]
        ELSE IF i < 2 \/ SubSeq(buf, i - 1, i) # CRLF
             THEN [err |-> ErrLineEnding, line |-> <<>>,
                   rest |-> SubSeq(buf, i + 1, Len(buf))]
             ELSE [err |-> NilErr, line |-> SubSeq(buf, 1, i - 2),
                   rest |-> SubSeq(buf, i + 1, Len(buf))]

parseSimpleString(buf) ==
    LET l == readLine(buf)
    IN  IF l.err # NilErr THEN ParseFail(l.err, l.rest)
        ELSE ParseOK(MkSimpleString(l.line), l.rest)

parseError(buf) ==
    LET l == readLine(buf)
    IN  IF l.err # NilErr THEN ParseFail(l.err, l.rest)
        ELSE ParseOK(MkError(l.line), l.rest)

parseInteger(buf) ==
    LET l == readLine(buf)
        num == Atoi(l.line)
    IN  IF l.err # NilErr THEN ParseFail(l.err, l.rest)
        ELSE IF ~num.ok THEN ParseFail(ErrIntegerFormat \o l.line, l.rest)
        ELSE ParseOK(MkInteger(num.n), l.rest)

\* mutant: the payload of a bulk string read as a line, not by its length
parseBulkStringByLine(buf) ==
    LET l == readLine(buf)
        length == Atoi(l.line)
        t == readLine(l.rest)
    IN  IF l.err # NilErr THEN ParseFail(l.err, l.rest)
        ELSE IF ~length.ok THEN ParseFail(ErrBulkLength \o l.line, l.rest)
        ELSE IF length.n = -1 THEN ParseOK(MkNullBulkString, l.rest)
        ELSE IF length.n < 0
             THEN ParseFail(ErrBulkLength \o FormatInt(length.n), l.rest)
        ELSE IF t.err # NilErr THEN ParseFail(t.err, t.rest)
        ELSE ParseOK(MkBulkString(t.line), t.rest)

parseBulkString(buf) ==
    LET l == readLine(buf)
        length == Atoi(l.line)
    IN  IF l.err # NilErr THEN ParseFail(l.err, l.rest)
        ELSE IF ~length.ok THEN ParseFail(ErrBulkLength \o l.line, l.rest)
        ELSE IF length.n = -1 THEN ParseOK(MkNullBulkString, l.rest)
        ELSE IF length.n < 0
             THEN ParseFail(ErrBulkLength \o FormatInt(length.n), l.rest)
        ELSE IF Len(l.rest) < length.n
             \* io.ReadFull: io.EOF when no byte was read, else ErrUnexpectedEOF
             THEN ParseFail(IF l.rest = <<>> THEN EOF ELSE ErrUnexpectedEOF, <<>>)
        ELSE LET data == SubSeq(l.rest, 1, length.n)
                 t == readLine(SubSeq(l.rest, length.n + 1, Len(l.rest)))
             IN  IF t.err # NilErr THEN ParseFail(t.err, t.rest)
                 ELSE ParseOK(MkBulkString(data), t.rest)

RECURSIVE Parse(_)
RECURSIVE ParseElements(_, _, _)
\* mutant: the element parsed put in front of the elements parsed before
ElementParsedInFront(e, n, acc) ==
    IF e.err # NilErr THEN ParseFail(e.err, e.rest)
    ELSE ParseElements(e.rest, n - 1, <<e.val>> \o acc)

\* the loop of parseArray: n elements still to parse, acc parsed so far.
\* ElementParsed is the body of the loop once Parse has returned e.
ElementParsed(e, n, acc) ==
    IF e.err # NilErr THEN ParseFail(e.err, e.rest)
    ELSE ParseElements(e.rest, n - 1, Append(acc, e.val))

ParseElements(buf, n, acc) ==
    IF n = 0 THEN ParseOK(MkArray(acc), buf)
    ELSE ElementParsed(Parse(buf), n, acc)

\* mutant: the length -1 of an array read as the length 0
parseArrayNullAsEmpty(buf) ==
    LET l == readLine(buf)
        length == Atoi(l.line)
    IN  IF l.err # NilErr THEN ParseFail(l.err, l.rest)
        ELSE IF ~length.ok THEN ParseFail(ErrArrayLength \o l.line, l.rest)
        ELSE IF length.n = -1 THEN ParseOK(MkArray(<<>>), l.rest)
        ELSE IF length.n < 0
             THEN ParseFail(ErrArrayLength \o FormatInt(length.n), l.rest)
        ELSE ParseElements(l.rest, length.n, <<>>)

parseArray(buf) ==
    LET l == readLine(buf)
        length == Atoi(l.line)
    IN  IF l.err # NilErr THEN ParseFail(l.err, l.rest)
        ELSE IF ~length.ok THEN ParseFail(ErrArrayLength \o l.line, l.rest)
        ELSE IF length.n = -1 THEN ParseOK(MkNullArray, l.rest)
        ELSE IF length.n < 0
             THEN ParseFail(ErrArrayLength \o FormatInt(length.n), l.rest)
        ELSE ParseElements(l.rest, length.n, <<>>)

Parse(buf) ==
    IF buf = <<>> THEN ParseFail(EOF, <<>>)
    ELSE LET b == Head(buf)
             r == Tail(buf)
         IN  CASE b = 43 -> parseSimpleString(r)
               [] b = 45 -> parseError(r)
               [] b = 58 -> parseInteger(r)
               [] b = 36 -> parseBulkString(r)
               [] b = 42 -> parseArray(r)
               [] OTHER -> ParseFail(ErrTypeIndicator \o FormatRune(b), r)

\* respValuesEqual of parser_test.go: structural equality of two values
RECURSIVE respValuesEqual(_, _)
respValuesEqual(a, b) ==
    IF a.Type # b.Type THEN FALSE
    ELSE IF a.Null # b.Null THEN FALSE
    ELSE CASE a.Type \in {"SimpleString", "Error", "BulkString"} -> a.Str = b.Str
           [] a.Type = "Integer" -> a.Int = b.Int
           [] a.Type = "NullBulkString" -> a.Null = b.Null
           [] a.Type = "Array" ->
                IF a.Null \/ b.Null THEN a.Null = b.Null
                ELSE IF Len(a.Array) # Len(b.Array) THEN FALSE
                ELSE \A i \in 1..Len(a.Array) :
                        respValuesEqual(a.Array[i], b.Array[i])
           [] OTHER -> FALSE

(***************************************************************************)
(* Command and ParseCommand                                                *)
(***************************************************************************)
Command(name, args) == [Name |-> name, Args |-> args]
NilCommand == Command(<<>>, <<>>)

\* "PING"
PING == <<80, 73, 78, 71>>
\* "SET"
SET == <<83, 69, 84>>
\* "GET"
GET == <<71, 69, 84>>
\* "EXISTS"
EXISTS == <<69, 88, 73, 83, 84, 83>>
\* "DEL"
DEL == <<68, 69, 76>>
\* "PONG"
PONG == <<80, 79, 78, 71>>
\* "OK"
OK == <<79, 75>>
\* "ERR wrong number of arguments for '"
ErrWrongArgsPrefix == <<69, 82, 82, 32, 119, 114, 111, 110, 103, 32, 110, 117, 109, 98, 101, 114, 32, 111, 102, 32, 97, 114, 103, 117, 109, 101, 110, 116, 115, 32, 102, 111, 114, 32, 39>>
\* "' command"
ErrWrongArgsSuffix == <<39, 32, 99, 111, 109, 109, 97, 110, 100>>
\* "ERR unknown command '"
ErrUnknownPrefix == <<69, 82, 82, 32, 117, 110, 107, 110, 111, 119, 110, 32, 99, 111, 109, 109, 97, 110, 100, 32, 39>>
\* "'"
Quote == <<39>>

\* "command value cannot be nil"
ErrCmdNil == <<99, 111, 109, 109, 97, 110, 100, 32, 118, 97, 108, 117, 101, 32, 99, 97, 110, 110, 111, 116, 32, 98, 101, 32, 110, 105, 108>>
\* "command must be an array"
ErrCmdNotArray == <<99, 111, 109, 109, 97, 110, 100, 32, 109, 117, 115, 116, 32, 98, 101, 32, 97, 110, 32, 97, 114, 114, 97, 121>>
\* "command array cannot be empty"
ErrCmdEmpty == <<99, 111, 109, 109, 97, 110, 100, 32, 97, 114, 114, 97, 121, 32, 99, 97, 110, 110, 111, 116, 32, 98, 101, 32, 101, 109, 112, 116, 121>>
\* "command name must be a bulk string"
ErrCmdName == <<99, 111, 109, 109, 97, 110, 100, 32, 110, 97, 109, 101, 32, 109, 117, 115, 116, 32, 98, 101, 32, 97, 32, 98, 117, 108, 107, 32, 115, 116, 114, 105, 110, 103>>
\* "command argument "
ErrCmdArgPrefix == <<99, 111, 109, 109, 97, 110, 100, 32, 97, 114, 103, 117, 109, 101, 110, 116, 32>>
\* " must be a bulk string"
ErrCmdArgSuffix == <<32, 109, 117, 115, 116, 32, 98, 101, 32, 97, 32, 98, 117, 108, 107, 32, 115, 116, 114, 105, 110, 103>>
\* "ERR Protocol error: "
ErrProtocolPrefix == <<69, 82, 82, 32, 80, 114, 111, 116, 111, 99, 111, 108, 32, 101, 114, 114, 111, 114, 58, 32>>

\* the loop over the arguments: the index of the first element after the
\* name that is no BulkString, 0 when there is none
FirstNonBulk(a) ==
    IF \E i \in 2..Len(a) : a[i].Type # "BulkString"
    THEN CHOOSE i \in 2..Len(a) :
            a[i].Type # "BulkString"
              /\ \A j \in 2..(i - 1) : a[j].Type = "BulkString"
    ELSE 0

CommandResult(e, c) == [err |-> e, cmd |-> c]

\* mutant: the name of the command taken as it was sent
ParseCommandAsSent(value) ==
    IF value.Type = "nil" THEN CommandResult(ErrCmdNil, NilCommand)
    ELSE IF value.Type # "Array" THEN CommandResult(ErrCmdNotArray, NilCommand)
    ELSE IF value.Null \/ Len(value.Array) = 0
    THEN CommandResult(ErrCmdEmpty, NilCommand)
    ELSE IF value.Array[1].Type # "BulkString"
    THEN CommandResult(ErrCmdName, NilCommand)
    ELSE IF FirstNonBulk(value.Array) # 0
    THEN CommandResult(ErrCmdArgPrefix
                         \o FormatInt(FirstNonBulk(value.Array) - 1)
                         \o ErrCmdArgSuffix, NilCommand)
    ELSE CommandResult(NilErr,
            Command(value.Array[1].Str,
                    [i \in 1..(Len(value.Array) - 1) |-> value.Array[i + 1].Str]))

ParseCommand(value) ==
    IF value.Type = "nil" THEN CommandResult(ErrCmdNil, NilCommand)
    ELSE IF value.Type # "Array" THEN CommandResult(ErrCmdNotArray, NilCommand)
    ELSE IF value.Null \/ Len(value.Array) = 0
    THEN CommandResult(ErrCmdEmpty, NilCommand)
    ELSE IF value.Array[1].Type # "BulkString"
    THEN CommandResult(ErrCmdName, NilCommand)
    ELSE IF FirstNonBulk(value.Array) # 0
    THEN CommandResult(ErrCmdArgPrefix
                         \o FormatInt(FirstNonBulk(value.Array) - 1)
                         \o ErrCmdArgSuffix, NilCommand)
    ELSE CommandResult(NilErr,
            Command(ToUpper(value.Array[1].Str),
                    [i \in 1..(Len(value.Array) - 1) |-> value.Array[i + 1].Str]))

(***************************************************************************)
(* InMemoryStore: data is a function from the keys present to their values *)
(* Every operation holds the store's mutex from entry to return, so each   *)
(* is one atomic step.                                                     *)
(***************************************************************************)
NewInMemoryStore == <<>>

\* mutant: a Set that writes to an empty map, losing the other keys
SetAlone(d, key, value) == [x \in {key} |-> value]

\* mutant: a Set that keeps the value of a key already present
SetIfAbsent(d, key, value) ==
    [x \in (DOMAIN d) \cup {key} |-> IF x \in DOMAIN d THEN d[x] ELSE value]

Set(d, key, value) ==
    [x \in (DOMAIN d) \cup {key} |-> IF x = key THEN value ELSE d[x]]

\* mutant: a Get that takes the empty value for a missing key
GetNonEmpty(d, key) ==
    IF key \in DOMAIN d /\ d[key] # <<>> THEN [value |-> d[key], exists |-> TRUE]
    ELSE [value |-> <<>>, exists |-> FALSE]

\* (value, exists): the zero value "" when the key is absent
Get(d, key) ==
    IF key \in DOMAIN d THEN [value |-> d[key], exists |-> TRUE]
    ELSE [value |-> <<>>, exists |-> FALSE]

Exists(d, key) == key \in DOMAIN d

Remove(d, key) == [x \in (DOMAIN d) \ {key} |-> d[x]]

Delete(d, key) ==
    IF key \in DOMAIN d THEN [exists |-> TRUE, data |-> Remove(d, key)]
    ELSE [exists |-> FALSE, data |-> d]

\* mutant: a loop that counts every occurrence of a key that was present
RECURSIVE DeleteLoopCountAll(_, _, _)
DeleteLoopCountAll(d, keys, deletedCount) ==
    IF keys = <<>> THEN [count |-> deletedCount, data |-> d]
    ELSE IF Head(keys) \in DOMAIN d
         THEN [count |-> DeleteLoopCountAll(d, Tail(keys), deletedCount + 1).count,
               data |-> Remove(DeleteLoopCountAll(d, Tail(keys), 0).data, Head(keys))]
         ELSE DeleteLoopCountAll(d, Tail(keys), deletedCount)

\* the loop of DeleteMultiple over keys, deletedCount so far
RECURSIVE DeleteLoop(_, _, _)
DeleteLoop(d, keys, deletedCount) ==
    IF keys = <<>> THEN [count |-> deletedCount, data |-> d]
    ELSE IF Head(keys) \in DOMAIN d
         THEN DeleteLoop(Remove(d, Head(keys)), Tail(keys), deletedCount + 1)
         ELSE DeleteLoop(d, Tail(keys), deletedCount)

DeleteMultiple(d, keys) == DeleteLoop(d, keys, 0)

(***************************************************************************)
(* DefaultCommandHandler: each handler yields the response and the store   *)
(* after it.                                                               *)
(***************************************************************************)
Result(resp, d) == [resp |-> resp, data |-> d]

WrongArgs(name) == MkError(ErrWrongArgsPrefix \o name \o ErrWrongArgsSuffix)

\* mutant: the message echoed as a simple string
handlePingSimple(args, d) ==
    IF Len(args) = 0 THEN Result(MkSimpleString(PONG), d)
    ELSE IF Len(args) = 1 THEN Result(MkSimpleString(args[1]), d)
    ELSE Result(WrongArgs(PING), d)

handlePing(args, d) ==
    IF Len(args) = 0 THEN Result(MkSimpleString(PONG), d)
    ELSE IF Len(args) = 1 THEN Result(MkBulkString(args[1]), d)
    ELSE Result(WrongArgs(PING), d)

\* mutant: key and value taken in the wrong order
handleSetSwapped(args, d) ==
    IF Len(args) # 2 THEN Result(WrongArgs(SET), d)
    ELSE Result(MkSimpleString(OK), Set(d, args[2], args[1]))

handleSet(args, d) ==
    IF Len(args) # 2 THEN Result(WrongArgs(SET), d)
    ELSE Result(MkSimpleString(OK), Set(d, args[1], args[2]))

\* mutant: only a missing key is refused, further arguments are ignored
handleGetLax(args, d) ==
    IF Len(args) < 1 THEN Result(WrongArgs(GET), d)
    ELSE IF Get(d, args[1]).exists THEN Result(MkBulkString(Get(d, args[1]).value), d)
    ELSE Result(MkNullBulkString, d)

handleGet(args, d) ==
    IF Len(args) # 1 THEN Result(WrongArgs(GET), d)
    ELSE LET g == Get(d, args[1])
         IN  IF g.exists THEN Result(MkBulkString(g.value), d)
             ELSE Result(MkNullBulkString, d)

\* mutant: a key counted once however often it is listed
RECURSIVE ExistsLoopDistinct(_, _, _)
ExistsLoopDistinct(d, args, count) ==
    IF args = <<>> THEN count
    ELSE ExistsLoopDistinct(d, Tail(args),
            IF Exists(d, Head(args)) /\ Head(args) \notin Range(Tail(args))
            THEN count + 1 ELSE count)

\* the loop of handleExists over args, count so far
RECURSIVE ExistsLoop(_, _, _)
ExistsLoop(d, args, count) ==
    IF args = <<>> THEN count
    ELSE ExistsLoop(d, Tail(args),
                    IF Exists(d, Head(args)) THEN count + 1 ELSE count)

handleExists(args, d) ==
    IF Len(args) = 0 THEN Result(WrongArgs(EXISTS), d)
    ELSE Result(MkInteger(ExistsLoop(d, args, 0)), d)

handleDel(args, d) ==
    IF Len(args) = 0 THEN Result(WrongArgs(DEL), d)
    ELSE IF Len(args) = 1
         THEN LET r == Delete(d, args[1])
              IN  Result(MkInteger(IF r.exists THEN 1 ELSE 0), r.data)
         ELSE LET r == DeleteMultiple(d, args)
              IN  Result(MkInteger(r.count), r.data)

\* mutant: the error for an unknown command does not name it
ExecuteNoName(cmd, d) ==
    CASE cmd.Name = PING -> handlePing(cmd.Args, d)
      [] cmd.Name = SET -> handleSet(cmd.Args, d)
      [] cmd.Name = GET -> handleGet(cmd.Args, d)
      [] cmd.Name = EXISTS -> handleExists(cmd.Args, d)
      [] cmd.Name = DEL -> handleDel(cmd.Args, d)
      [] OTHER -> Result(MkError(ErrUnknownPrefix \o Quote), d)

Execute(cmd, d) ==
    CASE cmd.Name = PING -> handlePing(cmd.Args, d)
      [] cmd.Name = SET -> handleSet(cmd.Args, d)
      [] cmd.Name = GET -> handleGet(cmd.Args, d)
      [] cmd.Name = EXISTS -> handleExists(cmd.Args, d)
      [] cmd.Name = DEL -> handleDel(cmd.Args, d)
      [] OTHER -> Result(MkError(ErrUnknownPrefix \o cmd.Name \o Quote), d)

(***************************************************************************)
(* State.                                                                  *)
(*   cval, cwire, cres, cpc : the codec exercised on its own, as           *)
(*   TestRESP2RoundTripConsistency does: a value is built, serialized,     *)
(*   and the bytes are parsed back.                                        *)
(*   data : the map of the InMemoryStore.                                  *)
(*   last : the request the server answered last and its answer, kept for  *)
(*   the properties: kind and text of the command name the client sent,    *)
(*   its arguments, the response value, the bytes written and the store    *)
(*   before the request.                                                   *)
(*   ref  : for each string, what the requests answered so far say of it   *)
(*   as a key: the value of the latest SET not followed by a DEL of it.    *)
(*   mutex : the RWMutex of the store where its operations are followed    *)
(*   statement by statement: the caller holding the write lock and the     *)
(*   callers holding the read lock.                                        *)
(*   calls : for each caller of the store its operation, its position in   *)
(*   it and its locals.                                                    *)
(*   lin   : the plain map the operations of the callers are applied to    *)
(*   one at a time, each when it takes its lock.                           *)
(*   conns : the connections map of the DefaultConnectionManager, from     *)
(*   identifier to the transport registered under it.                      *)
(*   sess  : for each transport the position and the locals of the         *)
(*   goroutine running handleConnection on it.                             *)
(*   net   : for each transport its state, the bytes the client wrote that *)
(*   the server has not consumed, the writes of the server, and the client *)
(*   at its other end.                                                     *)
(*   issued : the number of identifiers generated so far.                  *)
(*   srv   : the Server: its context, its listener, its WaitGroup, the     *)
(*   position of acceptConnections and the position of Stop.               *)
(***************************************************************************)
VARIABLES cval, cwire, cres, cpc, data, last, ref, mutex, calls, lin,
          conns, sess, net, issued, srv

codecVars == <<cval, cwire, cres, cpc>>
execVars == <<data, last, ref, mutex, calls, lin>>
serverVars == <<conns, sess, net, issued, srv>>
vars == <<cval, cwire, cres, cpc, data, last, ref, mutex, calls, lin,
          conns, sess, net, issued, srv>>

(***************************************************************************)
(* One iteration of the loop of handleConnection on the bytes of one       *)
(* request: Parse, ParseCommand, Execute, Serialize.  A failed Parse or    *)
(* ParseCommand is answered with a protocol error and Execute is not       *)
(* called.  closed is the return taken when the error text is "EOF".       *)
(***************************************************************************)
\* cres before anything was parsed
NoResult == ParseOK(NilValue, <<>>)

\* mutant: the protocol error sent as a simple string
ProtocolErrorAsText(e) == MkSimpleString(ErrProtocolPrefix \o e)

ProtocolError(e) == MkError(ErrProtocolPrefix \o e)

Answer(resp, d, executed, closed, rest) ==
    [resp |-> resp, out |-> IF closed THEN <<>> ELSE Serialize(resp),
     data |-> d, executed |-> executed, closed |-> closed, rest |-> rest]

Iteration(input, d) ==
    LET p == Parse(input)
        c == ParseCommand(p.val)
        r == Execute(c.cmd, d)
    IN  IF p.err # NilErr
        THEN IF p.err = EOF THEN Answer(NilValue, d, FALSE, TRUE, p.rest)
             ELSE Answer(ProtocolError(p.err), d, FALSE, FALSE, p.rest)
        ELSE IF c.err # NilErr
             THEN Answer(ProtocolError(c.err), d, FALSE, FALSE, p.rest)
             ELSE Answer(r.resp, r.data, TRUE, FALSE, p.rest)

(***************************************************************************)
(* The transports and the workers of the server                            *)
(***************************************************************************)
\* the transports clients open in a run
NumConns == 3
\* ServerConfig.MaxClients, the -max-clients flag
MaxClients == 2

Conns == 1..NumConns

\* the errors of the transport: "i/o timeout", "connection reset by peer",
\* "use of closed network connection"
ErrTimeout == <<105, 47, 111, 32, 116, 105, 109, 101, 111, 117, 116>>
ErrReset == <<99, 111, 110, 110, 101, 99, 116, 105, 111, 110, 32, 114, 101, 115, 101, 116, 32, 98, 121, 32, 112, 101, 101, 114>>
ErrClosed == <<117, 115, 101, 32, 111, 102, 32, 99, 108, 111, 115, 101, 100, 32, 110, 101, 116, 119, 111, 114, 107, 32, 99, 111, 110, 110, 101, 99, 116, 105, 111, 110>>

\* no goroutine yet.  kind tells what response is: an answer of Execute
\* ("reply"), the protocol error for a failed Parse ("parse") or for a
\* failed ParseCommand ("command"); rfailed and wfailed record that a read
\* or a write of the worker failed on the transport.
NoWorker ==
    [pc |-> "idle", id |-> 0, cmd |-> NilCommand, response |-> NilValue,
     kind |-> "none", rfailed |-> FALSE, wfailed |-> FALSE,
     i |-> 0, count |-> 0]

\* config.ReadTimeout and config.WriteTimeout, 30 seconds both, in steps of
\* the clock
ReadTimeout == 2

\* a transport nobody opened.  plan is what the client at its end will
\* write, sync whether it reads the answer to a request before it writes
\* the next, sent how much of plan it wrote and wrote the bytes it wrote;
\* rerr is the error reads on the transport fail with, werr whether writes
\* on it fail; deadline is the instant SetReadDeadline and SetWriteDeadline
\* were last given.
NoTransport ==
    [state |-> "none", inbuf |-> <<>>, outbuf |-> <<>>, plan |-> <<>>,
     sync |-> TRUE, sent |-> 0, wrote |-> <<>>, clientClosed |-> FALSE,
     serverClosed |-> FALSE, rerr |-> NilErr, werr |-> FALSE, seen |-> <<>>,
     closes |-> 0, lastActive |-> 0, deadline |-> 0]

\* the Server after Start: the listener open, acceptConnections counted in
\* the WaitGroup and waiting in Accept, Stop not called.  stop is the
\* position of Stop, reported the closing of the shutdown channel; before
\* holds the number of connections registered when cancel() ran.  again is
\* the position of a second call of Stop, and panicked whether a goroutine
\* has panicked, which ends the process.
ServerStarted ==
    [cancelled |-> FALSE, listening |-> TRUE, apc |-> "accept", wg |-> 1,
     stop |-> "idle", timedOut |-> FALSE, reported |-> FALSE, before |-> 0,
     maxClients |-> MaxClients, now |-> 0, swept |-> -1,
     again |-> "idle", panicked |-> FALSE]

(***************************************************************************)
(* The requests of a client: a command name in some spelling and a list of *)
(* arguments, sent as an Array of BulkStrings.                             *)
(***************************************************************************)
\* most arguments of a request
MaxArgs == 3

\* the strings used as keys, values and messages: the empty string and a
\* string holding a letter, CR, LF and NUL
StrEmpty == <<>>
StrBinary == <<97, CR, LF, NUL>>
Strs == {StrEmpty, StrBinary}

ArgLists == UNION {[1..n -> Strs] : n \in 0..MaxArgs}

\* the names a client sends: text is what it writes ("PING", "Ping", "SET",
\* "GET", "get", "EXISTS", "DEL", "dEl", "FOO", "pong"), kind the command
\* meant and upper the name in upper case
SpelledNames ==
    {[kind |-> "PING", text |-> PING, upper |-> PING],
     [kind |-> "PING", text |-> <<80, 105, 110, 103>>, upper |-> PING],
     [kind |-> "SET", text |-> SET, upper |-> SET],
     [kind |-> "GET", text |-> GET, upper |-> GET],
     [kind |-> "GET", text |-> <<103, 101, 116>>, upper |-> GET],
     [kind |-> "EXISTS", text |-> EXISTS, upper |-> EXISTS],
     [kind |-> "DEL", text |-> DEL, upper |-> DEL],
     [kind |-> "DEL", text |-> <<100, 69, 108>>, upper |-> DEL],
     [kind |-> "OTHER", text |-> <<70, 79, 79>>, upper |-> <<70, 79, 79>>],
     [kind |-> "OTHER", text |-> <<112, 111, 110, 103>>, upper |-> PONG]}

\* the bytes a client writes for a request
RequestBytes(name, args) ==
    Serialize(MkArray(<<MkBulkString(name)>>
                        \o [i \in 1..Len(args) |-> MkBulkString(args[i])]))

\* what the requests say of a key: never set, set to v, or set and deleted
Absent == [set |-> FALSE, value |-> <<>>, deleted |-> FALSE]
Present(v) == [set |-> TRUE, value |-> v, deleted |-> FALSE]
Deleted == [set |-> FALSE, value |-> <<>>, deleted |-> TRUE]

\* no request yet
NoRequest ==
    [phase |-> "none", kind |-> "none", name |-> <<>>, upper |-> <<>>,
     args |-> <<>>,
     input |-> <<>>, resp |-> NilValue, out |-> <<>>, executed |-> FALSE,
     pre |-> NewInMemoryStore, refpre |-> [k \in Strs |-> Absent]]

\* what a request says of the keys, whatever the server does with it: a SET
\* of two arguments writes its key, a DEL of one or more removes its keys
RefAfter(r, kind, args) ==
    IF kind = "SET" /\ Len(args) = 2
    THEN [r EXCEPT ![args[1]] = Present(args[2])]
    ELSE IF kind = "DEL" /\ Len(args) >= 1
    THEN [k \in Strs |->
            IF k \in Range(args) /\ (r[k].set \/ r[k].deleted) THEN Deleted
            ELSE r[k]]
    ELSE r

\* the other components before any request
\* the mutex held by nobody
Unlocked == [writer |-> 0, readers |-> {}]

ExecIdle ==
    /\ data = NewInMemoryStore
    /\ last = NoRequest
    /\ ref = [k \in Strs |-> Absent]
    /\ mutex = Unlocked
    /\ calls = <<>>
    /\ lin = NewInMemoryStore

\* no transport, no worker, nothing registered
ServerIdle ==
    /\ conns = <<>>
    /\ sess = [c \in Conns |-> NoWorker]
    /\ net = [c \in Conns |-> NoTransport]
    /\ issued = 0
    /\ srv = ServerStarted

InitExec ==
    /\ cval = MkNullArray
    /\ cwire = <<>>
    /\ cres = NoResult
    /\ cpc = "off"
    /\ ExecIdle
    /\ ServerIdle

\* the client writes one request and waits for its answer
ClientSend ==
    /\ last.phase # "sent"
    /\ \E n \in SpelledNames, args \in ArgLists :
          last' = [phase |-> "sent", kind |-> n.kind, name |-> n.text,
                   upper |-> n.upper, args |-> args, input |-> RequestBytes(n.text, args),
                   resp |-> NilValue, out |-> <<>>, executed |-> FALSE,
                   pre |-> data, refpre |-> ref]
    /\ UNCHANGED <<data, ref, mutex, calls, lin>>
    /\ UNCHANGED codecVars
    /\ UNCHANGED serverVars

\* the server answers the request: one full iteration of the loop of
\* handleConnection, with no other connection active
ServeRequest ==
    /\ last.phase = "sent"
    /\ LET it == Iteration(last.input, data)
       IN  /\ data' = it.data
           /\ last' = [last EXCEPT !.phase = "answered", !.resp = it.resp,
                                   !.out = it.out, !.executed = it.executed]
    /\ ref' = RefAfter(ref, last.kind, last.args)
    /\ UNCHANGED <<mutex, calls, lin>>
    /\ UNCHANGED codecVars
    /\ UNCHANGED serverVars

NextExec == ClientSend \/ ServeRequest

SpecExec == InitExec /\ [][NextExec]_vars

(***************************************************************************)
(* Bounds of the codec exercise                                            *)
(***************************************************************************)
\* longest text of a leaf value
MaxStrLen == 2
\* deepest nesting of arrays
MaxDepth == 2

\* the bytes texts are made of: NUL, LF, CR and the letter a
CodecBytes == {NUL, LF, CR, 97}
CodecStrings == UNION {[1..k -> CodecBytes] : k \in 0..MaxStrLen}
IntSamples == {0, 7, -1, 10, -42, 2147483647, -2147483647}

LeafValues ==
    {MkSimpleString(s) : s \in CodecStrings}
      \cup {MkError(s) : s \in CodecStrings}
      \cup {MkBulkString(s) : s \in CodecStrings}
      \cup {MkInteger(n) : n \in IntSamples}
      \cup {MkNullBulkString, MkNullArray, MkArray(<<>>)}

\* the values put beside a value when it is wrapped in an array
ElemSamples ==
    {MkBulkString(CRLF), MkInteger(-1), MkNullBulkString, MkNullArray}

RECURSIVE Depth(_)
RECURSIVE MaxElemDepth(_)
MaxElemDepth(a) ==
    IF a = <<>> THEN 0
    ELSE LET h == Depth(Head(a))
             t == MaxElemDepth(Tail(a))
         IN  IF h > t THEN h ELSE t

Depth(v) ==
    IF v.Type = "Array" /\ ~v.Null THEN 1 + MaxElemDepth(v.Array) ELSE 0


InitCodec ==
    /\ cval \in LeafValues
    /\ cwire = <<>>
    /\ cres = NoResult
    /\ cpc = "build"
    /\ ExecIdle
    /\ ServerIdle

\* the test's generator: an array holding the value built so far, alone or
\* beside another value
CodecWrap ==
    /\ cpc = "build"
    /\ Depth(cval) < MaxDepth
    /\ \E a \in {<<cval>>}
               \cup {<<cval, e>> : e \in ElemSamples}
               \cup {<<e, cval>> : e \in ElemSamples} :
          cval' = MkArray(a)
    /\ UNCHANGED <<cwire, cres, cpc>>
    /\ UNCHANGED execVars
    /\ UNCHANGED serverVars

CodecSerialize ==
    /\ cpc = "build"
    /\ cwire' = Serialize(cval)
    /\ cpc' = "wire"
    /\ UNCHANGED <<cval, cres>>
    /\ UNCHANGED execVars
    /\ UNCHANGED serverVars

CodecParse ==
    /\ cpc = "wire"
    /\ cres' = Parse(cwire)
    /\ cpc' = "parsed"
    /\ UNCHANGED <<cval, cwire>>
    /\ UNCHANGED execVars
    /\ UNCHANGED serverVars

NextCodec == CodecWrap \/ CodecSerialize \/ CodecParse

SpecCodec == InitCodec /\ [][NextCodec]_vars

(***************************************************************************)
(* ParseCommand on the values a parse can return: every array of up to     *)
(* MaxCmdLen elements, the elements being BulkStrings (GET in three        *)
(* spellings, the empty text, a text with CR, LF and NUL), the null        *)
(* BulkString, an Integer, a SimpleString, an Array and the null Array;    *)
(* and beside the arrays the null Array, the values that are no Array and  *)
(* the nil value.                                                          *)
(***************************************************************************)
\* most elements of an array handed to ParseCommand
MaxCmdLen == 3

\* "get", "Get"
GetLower == <<103, 101, 116>>
GetMixed == <<71, 101, 116>>

CmdElems ==
    {MkBulkString(s) : s \in {GET, GetLower, GetMixed, StrEmpty, StrBinary}}
      \cup {MkNullBulkString, MkInteger(7), MkSimpleString(GET),
            MkArray(<<MkBulkString(GET)>>), MkNullArray}

CmdValues ==
    {MkArray(a) : a \in UNION {[1..n -> CmdElems] : n \in 0..MaxCmdLen}}
      \cup CmdElems \cup {MkError(GET), NilValue}

InitCmd ==
    /\ cval \in CmdValues
    /\ cwire = <<>>
    /\ cres = NoResult
    /\ cpc = "value"
    /\ ExecIdle
    /\ ServerIdle

\* parser.ParseCommand(respValue); cres holds what it returned
CommandParse ==
    /\ cpc = "value"
    /\ cres' = ParseCommand(cval)
    /\ cpc' = "command"
    /\ UNCHANGED <<cval, cwire>>
    /\ UNCHANGED execVars
    /\ UNCHANGED serverVars

NextCmd == CommandParse

SpecCmd == InitCmd /\ [][NextCmd]_vars

(***************************************************************************)
(* The server with several clients at once.  acceptConnections starts one  *)
(* goroutine running handleConnection for each accepted transport; the     *)
(* goroutines share the connection manager and the store, each behind its  *)
(* mutex, so a step is one call made under a mutex or one operation on the *)
(* transport.  Every client here runs the script of the concurrent SET/GET *)
(* test: it connects, sends SET of its own key, reads the answer, sends    *)
(* GET of that key, reads the answer and closes.  Clients answer within    *)
(* the read deadline and the server is not stopped.                        *)
(***************************************************************************)
\* "k<c>" and "v<c>", the key and the value of client c
ClientKey(c) == <<107, 48 + c>>
ClientValue(c) == <<118, 48 + c>>

Script(c) ==
    <<RequestBytes(SET, <<ClientKey(c), ClientValue(c)>>),
      RequestBytes(GET, <<ClientKey(c)>>)>>

\* mutant: every call returns the same identifier
generateConnectionIDFixed(n) == 1

\* 8 random bytes in hexadecimal after "conn_": an identifier no earlier call
\* returned, two calls returning the same 8 bytes being left out
generateConnectionID(n) == n + 1

\* a client about to write plan, one of plan[i] as its i-th message, and a
\* client that never connects
Client(plan, sync) == [NoTransport EXCEPT !.plan = plan, !.sync = sync]
NoClient == [NoTransport EXCEPT !.state = "absent"]

\* the messages of c in the concurrent SET/GET test
ScriptPlan(c) == [i \in 1..Len(Script(c)) |-> {Script(c)[i]}]

\* the server started and the clients about to run
ServerWith(clients) ==
    /\ conns = <<>>
    /\ sess = [c \in Conns |-> NoWorker]
    /\ net = clients
    /\ issued = 0
    /\ srv = ServerStarted

InitConc ==
    /\ cval = MkNullArray
    /\ cwire = <<>>
    /\ cres = NoResult
    /\ cpc = "off"
    /\ ExecIdle
    /\ ServerWith([c \in Conns |-> Client(ScriptPlan(c), TRUE)])

\* net.Dial of client c
ClientConnect(c) ==
    /\ net[c].state = "none"
    /\ srv.listening
    /\ net' = [net EXCEPT ![c].state = "pending"]
    /\ UNCHANGED <<conns, sess, issued, srv>>
    /\ UNCHANGED execVars
    /\ UNCHANGED codecVars

\* client c writes the next part of its plan, a client that reads the
\* answers once it has read the answers to what it sent
ClientWrite(c) ==
    /\ net[c].state \in {"pending", "open"}
    /\ ~net[c].clientClosed
    /\ net[c].sent < Len(net[c].plan)
    /\ net[c].sync => Len(net[c].outbuf) = net[c].sent
    /\ \E m \in net[c].plan[net[c].sent + 1] :
          net' = [net EXCEPT ![c].inbuf = @ \o m, ![c].sent = @ + 1,
                             ![c].wrote = @ \o m]
    /\ UNCHANGED <<conns, sess, issued, srv>>
    /\ UNCHANGED execVars
    /\ UNCHANGED codecVars

\* client c returns, and its deferred conn.Close() runs, when it has written
\* its plan and read the answers, or when a read fails because the server
\* closed; a client that does not read the answers closes when it likes
ClientClose(c) ==
    /\ net[c].state \in {"pending", "open"}
    /\ ~net[c].clientClosed
    /\ \/ /\ net[c].sent = Len(net[c].plan)
          /\ Len(net[c].outbuf) = net[c].sent
       \/ ~net[c].sync
       \/ net[c].serverClosed
    /\ net' = [net EXCEPT ![c].clientClosed = TRUE]
    /\ UNCHANGED <<conns, sess, issued, srv>>
    /\ UNCHANGED execVars
    /\ UNCHANGED codecVars

\* mutant: handleConnection called in the loop of acceptConnections, which
\* comes back to Accept when the session has ended
AcceptConnectionInline(c) ==
    /\ srv.apc = "accept"
    /\ srv.listening
    /\ net[c].state = "pending"
    /\ sess[c].pc = "idle"
    /\ \A d \in Conns : sess[d].pc \in {"idle", "rejected", "done"}
    /\ net' = [net EXCEPT ![c].state = "open"]
    /\ sess' = [sess EXCEPT ![c].pc = "add"]
    /\ srv' = IF srv.cancelled
              THEN [srv EXCEPT !.apc = "done"]
              ELSE [srv EXCEPT !.wg = @ + 1]
    /\ UNCHANGED <<conns, issued>>
    /\ UNCHANGED execVars
    /\ UNCHANGED codecVars

\* listener.Accept returns the transport of c, wg.Add(1), handleConnection
\* is started on it, and the loop of acceptConnections comes to its select:
\* it returns when the context is cancelled and waits in Accept again when
\* it is not
AcceptConnection(c) ==
    /\ srv.apc = "accept"
    /\ srv.listening
    /\ net[c].state = "pending"
    /\ sess[c].pc = "idle"
    /\ net' = [net EXCEPT ![c].state = "open"]
    /\ sess' = [sess EXCEPT ![c].pc = "add"]
    /\ srv' = IF srv.cancelled
              THEN [srv EXCEPT !.apc = "done"]
              ELSE [srv EXCEPT !.wg = @ + 1]
    /\ UNCHANGED <<conns, issued>>
    /\ UNCHANGED execVars
    /\ UNCHANGED codecVars

\* mutant: the loop of handleConnection without its select
LoopTopBlind == "read"

\* the select at the top of the loop of handleConnection: return, and so the
\* deferred RemoveConnection, when the context is cancelled, else Parse
LoopTop == IF srv.cancelled THEN "remove" ELSE "read"

\* mutant: the limit compared with > in place of >=
AddConnectionPastLimit(c) ==
    /\ sess[c].pc = "add"
    /\ IF srv.maxClients > 0 /\ Cardinality(DOMAIN conns) > srv.maxClients
       THEN /\ sess' = [sess EXCEPT ![c].pc = "rejected"]
            /\ net' = [net EXCEPT ![c].serverClosed = TRUE,
                                  ![c].closes = @ + 1]
            /\ srv' = [srv EXCEPT !.wg = @ - 1]
            /\ UNCHANGED <<conns, issued>>
       ELSE LET id == generateConnectionID(issued)
            IN  /\ conns' = [i \in DOMAIN conns \cup {id} |->
                               IF i = id THEN c ELSE conns[i]]
                /\ sess' = [sess EXCEPT ![c].pc = LoopTop, ![c].id = id]
                /\ issued' = issued + 1
                /\ UNCHANGED <<net, srv>>
    /\ UNCHANGED execVars
    /\ UNCHANGED codecVars

\* mutant: at the limit the transport is left open
AddConnectionLeftOpen(c) ==
    /\ sess[c].pc = "add"
    /\ IF srv.maxClients > 0 /\ Cardinality(DOMAIN conns) >= srv.maxClients
       THEN /\ sess' = [sess EXCEPT ![c].pc = "rejected"]
            /\ srv' = [srv EXCEPT !.wg = @ - 1]
            /\ UNCHANGED <<conns, issued, net>>
       ELSE LET id == generateConnectionID(issued)
            IN  /\ conns' = [i \in DOMAIN conns \cup {id} |->
                               IF i = id THEN c ELSE conns[i]]
                /\ sess' = [sess EXCEPT ![c].pc = LoopTop, ![c].id = id]
                /\ issued' = issued + 1
                /\ UNCHANGED <<net, srv>>
    /\ UNCHANGED execVars
    /\ UNCHANGED codecVars

\* connManager.AddConnection(conn): nil at the limit, and handleConnection
\* closes the transport and returns; else the transport is registered under
\* a new identifier and the loop begins
AddConnection(c) ==
    /\ sess[c].pc = "add"
    /\ IF srv.maxClients > 0 /\ Cardinality(DOMAIN conns) >= srv.maxClients
       THEN /\ sess' = [sess EXCEPT ![c].pc = "rejected"]
            /\ net' = [net EXCEPT ![c].serverClosed = TRUE,
                                  ![c].closes = @ + 1]
            /\ srv' = [srv EXCEPT !.wg = @ - 1]
            /\ UNCHANGED <<conns, issued>>
       ELSE LET id == generateConnectionID(issued)
            IN  /\ conns' = [i \in DOMAIN conns \cup {id} |->
                               IF i = id THEN c ELSE conns[i]]
                /\ sess' = [sess EXCEPT ![c].pc = LoopTop, ![c].id = id]
                /\ net' = [net EXCEPT ![c].lastActive = srv.now,
                                      ![c].deadline = srv.now + ReadTimeout]
                /\ issued' = issued + 1
                /\ UNCHANGED srv
    /\ UNCHANGED execVars
    /\ UNCHANGED codecVars

\* mutant: a value that is no command handed to Execute as the nil command
ReadParseDispatchAll(c) ==
    /\ sess[c].pc = "read"
    /\ LET p == Parse(net[c].inbuf)
           pc == ParseCommand(p.val)
       IN  /\ p.err \in {EOF, ErrUnexpectedEOF} => net[c].clientClosed
           /\ net' = [net EXCEPT ![c].inbuf = p.rest]
           /\ IF p.err # NilErr
              THEN IF p.err = EOF
                   THEN sess' = [sess EXCEPT ![c].pc = "remove"]
                   ELSE sess' = [sess EXCEPT ![c].pc = "write",
                                             ![c].kind = "parse",
                                             ![c].cmd = NilCommand,
                                             ![c].response = ProtocolError(p.err)]
              ELSE sess' = [sess EXCEPT ![c].pc = "exec", ![c].cmd = pc.cmd]
    /\ UNCHANGED <<conns, issued, srv>>
    /\ UNCHANGED execVars
    /\ UNCHANGED codecVars

\* parser.Parse(clientConn.GetReader()) and ParseCommand, on bytes the
\* transport delivers.  The read waits while the bytes received end inside
\* a value and the client has not closed.  "EOF" ends the loop; any other
\* failure is answered with a protocol error; a command goes on to Execute.
ReadParse(c) ==
    /\ sess[c].pc = "read"
    /\ LET p == Parse(net[c].inbuf)
           pc == ParseCommand(p.val)
       IN  /\ p.err \in {EOF, ErrUnexpectedEOF} => net[c].clientClosed
           /\ net' = [net EXCEPT ![c].inbuf = p.rest]
           /\ IF p.err # NilErr
              THEN IF p.err = EOF
                   THEN sess' = [sess EXCEPT ![c].pc = "remove"]
                   ELSE sess' = [sess EXCEPT ![c].pc = "write",
                                             ![c].kind = "parse",
                                             ![c].cmd = NilCommand,
                                             ![c].response = ProtocolError(p.err)]
              ELSE IF pc.err # NilErr
                   THEN sess' = [sess EXCEPT ![c].pc = "write",
                                             ![c].kind = "command",
                                             ![c].cmd = NilCommand,
                                             ![c].response = ProtocolError(pc.err)]
                   ELSE sess' = [sess EXCEPT ![c].pc = "exec", ![c].cmd = pc.cmd]
    /\ UNCHANGED <<conns, issued, srv>>
    /\ UNCHANGED execVars
    /\ UNCHANGED codecVars

\* the error a read on the transport of c fails with, NilErr when reads work
ReadError(c) == IF net[c].serverClosed THEN ErrClosed ELSE net[c].rerr

\* Parse returns an error of the transport (a passed read deadline, a reset,
\* a transport closed on the server's side).  Its text is not "EOF": the
\* worker answers with a protocol error and continues.  A passed deadline
\* and a closed transport fail every read; a reset is reported to one read
\* and the reads after it find the end of the stream.
ReadFail(c) ==
    /\ sess[c].pc = "read"
    /\ ReadError(c) # NilErr
    /\ sess' = [sess EXCEPT ![c].pc = "write",
                            ![c].kind = "parse",
                            ![c].cmd = NilCommand,
                            ![c].response = ProtocolError(ReadError(c)),
                            ![c].rfailed = TRUE]
    /\ net' = IF ReadError(c) = ErrReset
              THEN [net EXCEPT ![c].rerr = NilErr, ![c].inbuf = <<>>,
                               ![c].clientClosed = TRUE]
              ELSE net
    /\ UNCHANGED <<conns, issued, srv>>
    /\ UNCHANGED execVars
    /\ UNCHANGED codecVars

\* handler.Execute(cmd): the handlers of SET and GET make one call of the
\* store, which runs under the mutex of the store
ExecuteCommand(c) ==
    /\ sess[c].pc = "exec"
    /\ LET r == Execute(sess[c].cmd, data)
       IN  /\ data' = r.data
           /\ sess' = [sess EXCEPT ![c].pc = "write", ![c].kind = "reply",
                                   ![c].response = r.resp]
    /\ UNCHANGED <<conns, net, issued, srv, last, ref, mutex, calls, lin>>
    /\ UNCHANGED codecVars

\* whether a write on the transport of c fails
WriteFails(c) == net[c].serverClosed \/ net[c].werr

\* most writes a transport takes in a run
MaxOut == 4

\* mutant: the answer put in front of the answers written before
WriteResponseInFront(c) ==
    /\ sess[c].pc = "write"
    /\ sess' = [sess EXCEPT ![c].pc = LoopTop]
    /\ net' = [net EXCEPT
                 ![c].outbuf = <<Serialize(sess[c].response)>> \o @,
                 ![c].lastActive = srv.now]
    /\ UNCHANGED <<conns, issued, srv>>
    /\ UNCHANGED execVars
    /\ UNCHANGED codecVars

\* clientConn.Write(parser.Serialize(response)), which first stamps the
\* record with the time of the write.  A failed write of an
\* answer of Execute ends the loop, a failed write of a protocol error is
\* ignored.  After the write of an answer of Execute both deadlines are set
\* anew; then the next iteration begins.
WriteResponse(c) ==
    /\ sess[c].pc = "write"
    /\ WriteFails(c) \/ Len(net[c].outbuf) < MaxOut
    /\ IF WriteFails(c)
       THEN /\ sess' = [sess EXCEPT
                          ![c].pc = IF sess[c].kind = "reply" THEN "remove"
                                    ELSE LoopTop,
                          ![c].wfailed = TRUE]
            /\ net' = [net EXCEPT ![c].lastActive = srv.now]
       ELSE /\ sess' = [sess EXCEPT ![c].pc = LoopTop]
            /\ net' = [net EXCEPT
                         ![c].outbuf = Append(@, Serialize(sess[c].response)),
                         ![c].rerr = IF sess[c].kind = "reply" /\ @ = ErrTimeout
                                     THEN NilErr ELSE @,
                         ![c].deadline = IF sess[c].kind = "reply"
                                         THEN srv.now + ReadTimeout ELSE @,
                         ![c].lastActive = srv.now]
    /\ UNCHANGED <<conns, issued, srv>>
    /\ UNCHANGED execVars
    /\ UNCHANGED codecVars

\* mutant: the transport of the worker is closed whether tracked or not
RemoveConnectionUnchecked(c) ==
    /\ sess[c].pc = "remove"
    /\ net' = [net EXCEPT ![c].serverClosed = TRUE, ![c].closes = @ + 1]
    /\ conns' = [i \in DOMAIN conns \ {sess[c].id} |-> conns[i]]
    /\ sess' = [sess EXCEPT ![c].pc = "done"]
    /\ srv' = [srv EXCEPT !.wg = @ - 1]
    /\ UNCHANGED issued
    /\ UNCHANGED execVars
    /\ UNCHANGED codecVars

\* the deferred connManager.RemoveConnection(clientConn.GetID()), then the
\* deferred wg.Done(): the transport registered under the identifier is
\* closed and the entry deleted
RemoveConnection(c) ==
    /\ sess[c].pc = "remove"
    /\ LET id == sess[c].id
       IN  IF id \in DOMAIN conns
           THEN /\ net' = [net EXCEPT ![conns[id]].serverClosed = TRUE,
                                      ![conns[id]].closes = @ + 1]
                /\ conns' = [i \in DOMAIN conns \ {id} |-> conns[i]]
           ELSE UNCHANGED <<net, conns>>
    /\ sess' = [sess EXCEPT ![c].pc = "done"]
    /\ srv' = [srv EXCEPT !.wg = @ - 1]
    /\ UNCHANGED issued
    /\ UNCHANGED execVars
    /\ UNCHANGED codecVars

NextConc ==
    \E c \in Conns :
        \/ ClientConnect(c)
        \/ ClientWrite(c)
        \/ ClientClose(c)
        \/ AcceptConnection(c)
        \/ AddConnection(c)
        \/ ReadParse(c)
        \/ ExecuteCommand(c)
        \/ WriteResponse(c)
        \/ RemoveConnection(c)

SpecConc == InitConc /\ [][NextConc]_vars

\* the goroutine of acceptConnections and the goroutine started for an
\* accepted transport take the steps they can take: Accept returns a
\* connection that is waiting, and the new worker calls AddConnection.
\* Nothing is asked of the clients or of workers that serve a session.
ConcFairness ==
    \A c \in Conns :
        /\ WF_vars(AcceptConnection(c))
        /\ WF_vars(AddConnection(c))

\* the clients of the concurrent PING test, each sending one PING
PingPlan == <<{RequestBytes(PING, <<>>)}>>

InitBusy ==
    /\ cval = MkNullArray
    /\ cwire = <<>>
    /\ cres = NoResult
    /\ cpc = "off"
    /\ ExecIdle
    /\ ServerWith([c \in Conns |-> Client(PingPlan, TRUE)])

SpecBusy == InitBusy /\ [][NextConc]_vars

SpecBusyFair == SpecBusy /\ ConcFairness

(***************************************************************************)
(* One connection misused.  The client of connection 1 writes up to        *)
(* MaxSends messages without reading the answers: requests, a value that   *)
(* is no command, malformed bytes; it closes when it likes, and its        *)
(* transport may fail once: the read deadline or the write deadline        *)
(* passes, or the peer resets it.                                          *)
(***************************************************************************)
\* most messages the client of connection 1 writes
MaxSends == 2

\* "FOO"
FOO == <<70, 79, 79>>
\* "?", "+OK\n", "$x\r\n": an unknown type indicator, a line ending in a
\* bare LF, a length that is no number
BadMarker == <<63>>
BadLineEnding == <<43, 79, 75, 10>>
BadLength == <<36, 120, 13, 10>>

SessInputs ==
    {RequestBytes(SET, <<ClientKey(1), ClientValue(1)>>),
     RequestBytes(FOO, <<>>),
     Serialize(MkSimpleString(OK)),
     Serialize(MkArray(<<>>)),
     BadMarker, BadLineEnding, BadLength}

InitSess ==
    /\ cval = MkNullArray
    /\ cwire = <<>>
    /\ cres = NoResult
    /\ cpc = "off"
    /\ ExecIdle
    /\ ServerWith([c \in Conns |->
            CASE c = 1 -> Client([i \in 1..MaxSends |-> SessInputs], FALSE)
              [] OTHER -> NoClient])

\* the transport of c fails: the deadline set by SetReadDeadline passes and
\* reads fail with a timeout, the deadline set by SetWriteDeadline passes
\* and writes fail, or the peer resets the connection and both fail
TransportFault(c) ==
    /\ net[c].state = "open"
    /\ ~net[c].serverClosed
    /\ net[c].rerr = NilErr /\ ~net[c].werr
    /\ \/ net' = [net EXCEPT ![c].rerr = ErrTimeout]
       \/ net' = [net EXCEPT ![c].werr = TRUE]
       \/ net' = [net EXCEPT ![c].rerr = ErrReset, ![c].werr = TRUE]
    /\ UNCHANGED <<conns, sess, issued, srv>>
    /\ UNCHANGED execVars
    /\ UNCHANGED codecVars

NextSess ==
    \/ \E c \in Conns :
          \/ ClientConnect(c)
          \/ ClientWrite(c)
          \/ ClientClose(c)
          \/ AcceptConnection(c)
          \/ AddConnection(c)
          \/ ReadParse(c)
          \/ ReadFail(c)
          \/ ExecuteCommand(c)
          \/ WriteResponse(c)
          \/ RemoveConnection(c)
    \/ TransportFault(1)

SpecSess == InitSess /\ [][NextSess]_vars

(***************************************************************************)
(* A failing connection beside a working one.  The client of connection 1  *)
(* sends one thing the server answers with an error, or nothing, and       *)
(* closes when it likes; its transport may fail as in SpecSess.  The       *)
(* client of connection 2 runs the script of the concurrent SET/GET test.  *)
(***************************************************************************)
\* an unknown marker, a bare LF, an unknown command, GET without a key
FailInputs ==
    {BadMarker, BadLineEnding, RequestBytes(FOO, <<>>), RequestBytes(GET, <<>>)}

InitIso ==
    /\ cval = MkNullArray
    /\ cwire = <<>>
    /\ cres = NoResult
    /\ cpc = "off"
    /\ ExecIdle
    /\ ServerWith([c \in Conns |->
            CASE c = 1 -> Client(<<FailInputs>>, FALSE)
              [] c = 2 -> Client(ScriptPlan(2), TRUE)
              [] OTHER -> NoClient])

SpecIso == InitIso /\ [][NextSess]_vars

(***************************************************************************)
(* A writer and a reader.  The client of connection 1 sets its key to a    *)
(* first and then to a second value, waiting for each answer; the client   *)
(* of connection 2 asks twice for that key, with GET or EXISTS, at any     *)
(* moment.  Each request of the reader is noted with the number of answers *)
(* the writer has received at the moment it is sent: that many SETs have   *)
(* returned by then.                                                       *)
(***************************************************************************)
\* number of requests of the reader
MaxReads == 2

\* "v1", "v2": the values written, in the order of writing
Written == <<ClientValue(1), ClientValue(2)>>

ReaderInputs ==
    {RequestBytes(GET, <<ClientKey(1)>>), RequestBytes(EXISTS, <<ClientKey(1)>>)}

InitVis ==
    /\ cval = MkNullArray
    /\ cwire = <<>>
    /\ cres = NoResult
    /\ cpc = "off"
    /\ ExecIdle
    /\ ServerWith([c \in Conns |->
            CASE c = 1 -> Client([i \in 1..Len(Written) |->
                                    {RequestBytes(SET, <<ClientKey(1), Written[i]>>)}],
                                 TRUE)
              [] c = 2 -> Client([i \in 1..MaxReads |-> ReaderInputs], TRUE)
              [] OTHER -> NoClient])

\* client c writes its next request, as in ClientWrite, and the request and
\* the number of answers connection 1 has received so far are noted
ClientIssue(c) ==
    /\ net[c].state \in {"pending", "open"}
    /\ ~net[c].clientClosed
    /\ net[c].sent < Len(net[c].plan)
    /\ net[c].sync => Len(net[c].outbuf) = net[c].sent
    /\ \E m \in net[c].plan[net[c].sent + 1] :
          net' = [net EXCEPT ![c].inbuf = @ \o m, ![c].sent = @ + 1,
                             ![c].wrote = @ \o m,
                             ![c].seen = Append(@, [req |-> m,
                                                   returned |-> Len(net[1].outbuf)])]
    /\ UNCHANGED <<conns, sess, issued, srv>>
    /\ UNCHANGED execVars
    /\ UNCHANGED codecVars

NextVis ==
    \/ ClientWrite(1)
    \/ ClientIssue(2)
    \/ \E c \in Conns :
          \/ ClientConnect(c)
          \/ ClientClose(c)
          \/ AcceptConnection(c)
          \/ AddConnection(c)
          \/ ReadParse(c)
          \/ ExecuteCommand(c)
          \/ WriteResponse(c)
          \/ RemoveConnection(c)

SpecVis == InitVis /\ [][NextVis]_vars

(***************************************************************************)
(* The server stopped.  Two clients connect when they like; the first may  *)
(* send a SET, the second a GET, each may send nothing and may close.      *)
(* Stop is called once, at any moment, and runs step by step beside the    *)
(* accept loop and the workers.                                            *)
(***************************************************************************)
InitStop ==
    /\ cval = MkNullArray
    /\ cwire = <<>>
    /\ cres = NoResult
    /\ cpc = "off"
    /\ ExecIdle
    /\ ServerWith([c \in Conns |->
            CASE c = 1 -> Client(<<{Script(1)[1]}>>, TRUE)
              [] c = 2 -> Client(<<{Script(1)[2]}>>, TRUE)
              [] OTHER -> NoClient])

\* Stop: s.cancel()
StopCancel ==
    /\ srv.stop = "idle"
    /\ srv' = [srv EXCEPT !.cancelled = TRUE, !.stop = "listener",
                          !.before = issued]
    /\ UNCHANGED <<conns, sess, net, issued>>
    /\ UNCHANGED execVars
    /\ UNCHANGED codecVars

\* Stop: s.listener.Close()
StopCloseListener ==
    /\ srv.stop = "listener"
    /\ srv' = [srv EXCEPT !.listening = FALSE, !.stop = "closeAll"]
    /\ UNCHANGED <<conns, sess, net, issued>>
    /\ UNCHANGED execVars
    /\ UNCHANGED codecVars

\* Stop: s.connManager.CloseAllConnections(), under the mutex of the
\* manager: every tracked transport is closed and its entry deleted
CloseAllConnections ==
    /\ srv.stop = "closeAll"
    /\ net' = [c \in Conns |->
                 IF c \in {conns[i] : i \in DOMAIN conns}
                 THEN [net[c] EXCEPT !.serverClosed = TRUE, !.closes = @ + 1]
                 ELSE net[c]]
    /\ conns' = <<>>
    /\ srv' = [srv EXCEPT !.stop = "wait"]
    /\ UNCHANGED <<sess, issued>>
    /\ UNCHANGED execVars
    /\ UNCHANGED codecVars

\* close(s.shutdown) on the channel already closed: the goroutine panics
\* and does not return from Stop
Panic == [srv EXCEPT !.panicked = TRUE]

\* mutant: Stop does not wait for the WaitGroup
StopWaitEarly ==
    /\ srv.stop = "wait"
    /\ srv' = [srv EXCEPT !.stop = "done", !.reported = TRUE]
    /\ UNCHANGED <<conns, sess, net, issued>>
    /\ UNCHANGED execVars
    /\ UNCHANGED codecVars

\* Stop: wg.Wait() has returned and done is closed; close(s.shutdown)
StopWaitDone ==
    /\ srv.stop = "wait"
    /\ srv.wg = 0
    /\ srv' = IF srv.reported THEN Panic
              ELSE [srv EXCEPT !.stop = "done", !.reported = TRUE]
    /\ UNCHANGED <<conns, sess, net, issued>>
    /\ UNCHANGED execVars
    /\ UNCHANGED codecVars

\* Stop: time.After(10 * time.Second) fires first; close(s.shutdown)
StopTimeout ==
    /\ srv.stop = "wait"
    /\ srv' = IF srv.reported THEN [Panic EXCEPT !.timedOut = TRUE]
              ELSE [srv EXCEPT !.stop = "done", !.timedOut = TRUE,
                               !.reported = TRUE]
    /\ UNCHANGED <<conns, sess, net, issued>>
    /\ UNCHANGED execVars
    /\ UNCHANGED codecVars

\* listener.Accept fails on the closed listener; cancel() ran before the
\* listener was closed, so the select finds the context done:
\* acceptConnections returns and its deferred wg.Done() runs
AcceptFails ==
    /\ srv.apc = "accept"
    /\ ~srv.listening
    /\ srv' = [srv EXCEPT !.apc = "done", !.wg = @ - 1]
    /\ UNCHANGED <<conns, sess, net, issued>>
    /\ UNCHANGED execVars
    /\ UNCHANGED codecVars

NextStop ==
    \/ \E c \in Conns :
          \/ ClientConnect(c)
          \/ ClientWrite(c)
          \/ ClientClose(c)
          \/ AcceptConnection(c)
          \/ AddConnection(c)
          \/ ReadParse(c)
          \/ ReadFail(c)
          \/ ExecuteCommand(c)
          \/ WriteResponse(c)
          \/ RemoveConnection(c)
    \/ StopCancel
    \/ StopCloseListener
    \/ CloseAllConnections
    \/ StopWaitDone
    \/ StopTimeout
    \/ AcceptFails

SpecStop == InitStop /\ [][NextStop]_vars

\* every goroutine that can take a step takes one: Stop once called goes on
\* to close the listener and the connections, the accept loop returns from
\* a failed Accept, and a worker registers, executes, writes, sees a read
\* fail and unregisters.  Nothing is asked of the clients, and nothing of a
\* read that waits for them.
StopFairness ==
    /\ WF_vars(StopCloseListener)
    /\ WF_vars(CloseAllConnections)
    /\ WF_vars(AcceptFails)
    /\ \A c \in Conns :
          /\ WF_vars(AddConnection(c))
          /\ WF_vars(ReadFail(c))
          /\ WF_vars(ExecuteCommand(c))
          /\ WF_vars(WriteResponse(c))
          /\ WF_vars(RemoveConnection(c))

SpecStopFair == SpecStop /\ StopFairness

(***************************************************************************)
(* The life of a connection.  The server of SpecStop, whose transports may *)
(* also fail, beside a clock and a caller of CleanupStaleConnections.      *)
(***************************************************************************)
\* the last instant of the clock
MaxNow == 2

\* staleTimeout, 5 minutes, in steps of the clock
StaleTimeout == 1

\* time passes
Tick ==
    /\ srv.now < MaxNow
    /\ srv' = [srv EXCEPT !.now = @ + 1]
    /\ UNCHANGED <<conns, sess, net, issued>>
    /\ UNCHANGED execVars
    /\ UNCHANGED codecVars

\* mutant: a record is stale as soon as it is as old as the timeout
IsStaleAtTimeout(c, timeout) == srv.now - net[c].lastActive >= timeout

\* ClientConnection.IsStale(timeout), on the record that wraps transport c:
\* time.Since(cc.lastActive) > timeout
IsStale(c, timeout) == srv.now - net[c].lastActive > timeout

\* connManager.CleanupStaleConnections(), under the mutex of the manager:
\* the stale records are collected, then each is closed and deleted.
\* swept keeps the instant of the last call.
CleanupStaleConnections ==
    /\ LET staleIDs == {i \in DOMAIN conns : IsStale(conns[i], StaleTimeout)}
       IN  /\ net' = [c \in Conns |->
                        IF c \in {conns[i] : i \in staleIDs}
                        THEN [net[c] EXCEPT !.serverClosed = TRUE,
                                            !.closes = @ + 1]
                        ELSE net[c]]
           /\ conns' = [i \in DOMAIN conns \ staleIDs |-> conns[i]]
    /\ srv' = [srv EXCEPT !.swept = srv.now]
    /\ UNCHANGED <<sess, issued>>
    /\ UNCHANGED execVars
    /\ UNCHANGED codecVars

\* one client, which may send a SET and may close
InitLife ==
    /\ cval = MkNullArray
    /\ cwire = <<>>
    /\ cres = NoResult
    /\ cpc = "off"
    /\ ExecIdle
    /\ ServerWith([c \in Conns |->
            CASE c = 1 -> Client(<<{Script(1)[1]}>>, TRUE)
              [] OTHER -> NoClient])

NextLife ==
    \/ NextStop
    \/ TransportFault(1)
    \/ Tick
    \/ CleanupStaleConnections

SpecLife == InitLife /\ [][NextLife]_vars

(***************************************************************************)
(* The record of a connection between its worker and Stop.  The server of  *)
(* SpecStop with clientConn.Write and CloseAllConnections followed         *)
(* statement by statement: Write stamps the record and then writes and     *)
(* flushes through cc.writer, holding no lock; CloseAllConnections takes   *)
(* the mutex of the manager and then flushes cc.writer and closes the      *)
(* transport of every record.  bufio.Writer is not made for two goroutines *)
(* at once: a Write and Flush of the worker that run beside the Flush of   *)
(* Close may reach the client once, reach it twice, or fail.               *)
(***************************************************************************)
\* CloseAllConnections holds cm.mutex
MgrLocked == srv.stop = "closing"

\* the worker of c is about to use cc.writer while Stop, holding the mutex
\* of the manager, is about to flush and close the record of c
Racing(c) ==
    /\ sess[c].pc = "flush"
    /\ MgrLocked
    /\ sess[c].id \in DOMAIN conns

\* clientConn.Write: cc.UpdateLastActive()
WriteEnter(c) ==
    /\ sess[c].pc = "write"
    /\ sess' = [sess EXCEPT ![c].pc = "flush"]
    /\ net' = [net EXCEPT ![c].lastActive = srv.now]
    /\ UNCHANGED <<conns, issued, srv>>
    /\ UNCHANGED execVars
    /\ UNCHANGED codecVars

\* clientConn.Write: cc.writer.Write(data) and cc.writer.Flush(), and what
\* handleConnection does with the error.  Beside the Flush of Close the
\* bytes reach the client once, twice or not at all, the error reported or
\* not.
WriteFlush(c) ==
    /\ sess[c].pc = "flush"
    /\ WriteFails(c) \/ Len(net[c].outbuf) < MaxOut
    /\ \E failed \in IF Racing(c) THEN BOOLEAN ELSE {WriteFails(c)},
          copies \in IF Racing(c) THEN 0..2
                     ELSE IF WriteFails(c) THEN {0} ELSE {1} :
          /\ sess' = [sess EXCEPT
                         ![c].pc = IF failed /\ sess[c].kind = "reply"
                                   THEN "remove" ELSE LoopTop,
                         ![c].wfailed = @ \/ failed]
          /\ net' = [net EXCEPT
                        ![c].outbuf =
                            @ \o [i \in 1..copies |-> Serialize(sess[c].response)],
                        ![c].rerr = IF ~failed /\ sess[c].kind = "reply"
                                       /\ @ = ErrTimeout
                                    THEN NilErr ELSE @]
    /\ UNCHANGED <<conns, issued, srv>>
    /\ UNCHANGED execVars
    /\ UNCHANGED codecVars

\* CloseAllConnections: cm.mutex.Lock()
CloseAllLock ==
    /\ srv.stop = "closeAll"
    /\ srv' = [srv EXCEPT !.stop = "closing"]
    /\ UNCHANGED <<conns, sess, net, issued>>
    /\ UNCHANGED execVars
    /\ UNCHANGED codecVars

\* CloseAllConnections: the loop, clientConn.Close() and delete for every
\* record, and the deferred cm.mutex.Unlock()
CloseAllRecords ==
    /\ srv.stop = "closing"
    /\ net' = [c \in Conns |->
                 IF c \in {conns[i] : i \in DOMAIN conns}
                 THEN [net[c] EXCEPT !.serverClosed = TRUE, !.closes = @ + 1]
                 ELSE net[c]]
    /\ conns' = <<>>
    /\ srv' = [srv EXCEPT !.stop = "wait"]
    /\ UNCHANGED <<sess, issued>>
    /\ UNCHANGED execVars
    /\ UNCHANGED codecVars

NextRace ==
    \/ \E c \in Conns :
          \/ ClientConnect(c)
          \/ ClientWrite(c)
          \/ ClientClose(c)
          \/ AcceptConnection(c)
          \/ ~MgrLocked /\ AddConnection(c)
          \/ ReadParse(c)
          \/ ReadFail(c)
          \/ ExecuteCommand(c)
          \/ WriteEnter(c)
          \/ WriteFlush(c)
          \/ ~MgrLocked /\ RemoveConnection(c)
    \/ StopCancel
    \/ StopCloseListener
    \/ CloseAllLock
    \/ CloseAllRecords
    \/ StopWaitDone
    \/ StopTimeout
    \/ AcceptFails

SpecRace == InitStop /\ [][NextRace]_vars

(***************************************************************************)
(* The connection manager alone, called as manager_test.go calls it: a     *)
(* manager made with some maximum, transports handed to AddConnection one  *)
(* after the other, identifiers handed to RemoveConnection, the other      *)
(* calls at any moment, beside the clock.  sess[c] is what the caller      *)
(* holds for transport c: nothing yet ("idle"), the record returned        *)
(* ("held") or nil ("full").                                               *)
(***************************************************************************)
\* the maxima a manager is made with: negative, zero, positive
MaxClientsValues == -1..MaxClients

\* the transports handed to AddConnection: one more than the largest
\* maximum
MgrConns == 1..(MaxClients + 1)

\* the identifiers AddConnection can return, and one it never returns
Ids == 1..(MaxClients + 2)

InitMgr ==
    /\ cval = MkNullArray
    /\ cwire = <<>>
    /\ cres = NoResult
    /\ cpc = "off"
    /\ ExecIdle
    /\ conns = <<>>
    /\ sess = [c \in Conns |-> NoWorker]
    /\ net = [c \in Conns |-> [NoTransport EXCEPT !.state = "open"]]
    /\ issued = 0
    /\ \E m \in MaxClientsValues :
          srv = [ServerStarted EXCEPT !.maxClients = m, !.listening = FALSE,
                                      !.apc = "off", !.wg = 0]

\* mutant: a maximum of zero is a limit like any other
MgrAddConnectionAnyLimit(c) ==
    /\ sess[c].pc = "idle"
    /\ IF Cardinality(DOMAIN conns) >= srv.maxClients
       THEN /\ sess' = [sess EXCEPT ![c].pc = "full"]
            /\ UNCHANGED <<conns, net, issued>>
       ELSE LET id == generateConnectionID(issued)
            IN  /\ conns' = [i \in DOMAIN conns \cup {id} |->
                               IF i = id THEN c ELSE conns[i]]
                /\ sess' = [sess EXCEPT ![c].pc = "held", ![c].id = id]
                /\ net' = [net EXCEPT ![c].lastActive = srv.now]
                /\ issued' = issued + 1
    /\ UNCHANGED srv
    /\ UNCHANGED execVars
    /\ UNCHANGED codecVars

\* cm.AddConnection(conn) on transport c: nil when maxClients is positive
\* and that many connections are tracked; else a record with a new
\* identifier and the time of the call, stored under the identifier
MgrAddConnection(c) ==
    /\ sess[c].pc = "idle"
    /\ IF srv.maxClients > 0 /\ Cardinality(DOMAIN conns) >= srv.maxClients
       THEN /\ sess' = [sess EXCEPT ![c].pc = "full"]
            /\ UNCHANGED <<conns, net, issued>>
       ELSE LET id == generateConnectionID(issued)
            IN  /\ conns' = [i \in DOMAIN conns \cup {id} |->
                               IF i = id THEN c ELSE conns[i]]
                /\ sess' = [sess EXCEPT ![c].pc = "held", ![c].id = id]
                /\ net' = [net EXCEPT ![c].lastActive = srv.now]
                /\ issued' = issued + 1
    /\ UNCHANGED srv
    /\ UNCHANGED execVars
    /\ UNCHANGED codecVars

\* what a call of RemoveConnection(id) leaves with the caller: the record
\* it holds under id is marked "absent" when the call did not find it
Found(id) ==
    [c \in Conns |->
        IF sess[c].pc = "held" /\ sess[c].id = id /\ id \notin DOMAIN conns
        THEN [sess[c] EXCEPT !.kind = "absent"]
        ELSE sess[c]]

\* mutant: the record is closed and its entry kept
MgrRemoveConnectionKeeps(id) ==
    /\ IF id \in DOMAIN conns
       THEN net' = [net EXCEPT ![conns[id]].serverClosed = TRUE,
                               ![conns[id]].closes = @ + 1]
       ELSE UNCHANGED net
    /\ sess' = Found(id)
    /\ UNCHANGED <<conns, issued, srv>>
    /\ UNCHANGED execVars
    /\ UNCHANGED codecVars

\* mutant: the record the caller got under the identifier is closed whether
\* it is tracked or not
MgrRemoveConnectionAgain(id) ==
    /\ net' = [c \in Conns |->
                 IF sess[c].pc = "held" /\ sess[c].id = id
                 THEN [net[c] EXCEPT !.serverClosed = TRUE, !.closes = @ + 1]
                 ELSE net[c]]
    /\ conns' = [i \in DOMAIN conns \ {id} |-> conns[i]]
    /\ sess' = Found(id)
    /\ UNCHANGED <<issued, srv>>
    /\ UNCHANGED execVars
    /\ UNCHANGED codecVars

\* cm.RemoveConnection(id): a record found under id is closed and its entry
\* deleted; an identifier not found changes nothing
MgrRemoveConnection(id) ==
    /\ IF id \in DOMAIN conns
       THEN /\ net' = [net EXCEPT ![conns[id]].serverClosed = TRUE,
                                  ![conns[id]].closes = @ + 1]
            /\ conns' = [i \in DOMAIN conns \ {id} |-> conns[i]]
       ELSE UNCHANGED <<net, conns>>
    /\ sess' = Found(id)
    /\ UNCHANGED <<issued, srv>>
    /\ UNCHANGED execVars
    /\ UNCHANGED codecVars

\* cm.CloseAllConnections(): every record is closed and its entry deleted
MgrCloseAllConnections ==
    /\ net' = [c \in Conns |->
                 IF c \in {conns[i] : i \in DOMAIN conns}
                 THEN [net[c] EXCEPT !.serverClosed = TRUE, !.closes = @ + 1]
                 ELSE net[c]]
    /\ conns' = <<>>
    /\ UNCHANGED <<sess, issued, srv>>
    /\ UNCHANGED execVars
    /\ UNCHANGED codecVars

\* cm.GetConnection(id): the record under id, which wraps the transport
\* conns[id], or nil
GetConnection(id) == IF id \in DOMAIN conns THEN conns[id] ELSE 0

\* cm.GetActiveCount(): len(cm.connections)
GetActiveCount == Cardinality(DOMAIN conns)

\* clientConn.UpdateLastActive() on a record the caller holds and the
\* manager tracks
UpdateLastActive(c) ==
    /\ sess[c].pc = "held"
    /\ GetConnection(sess[c].id) = c
    /\ net[c].lastActive # srv.now
    /\ net' = [net EXCEPT ![c].lastActive = srv.now]
    /\ UNCHANGED <<conns, sess, issued, srv>>
    /\ UNCHANGED execVars
    /\ UNCHANGED codecVars

\* the caller closes both ends of the pipe under a tracked record it holds,
\* behind the back of the manager
Disconnect(c) ==
    /\ sess[c].pc = "held"
    /\ GetConnection(sess[c].id) = c
    /\ ~net[c].clientClosed
    /\ net' = [net EXCEPT ![c].clientClosed = TRUE]
    /\ UNCHANGED <<conns, sess, issued, srv>>
    /\ UNCHANGED execVars
    /\ UNCHANGED codecVars

NextMgr ==
    \/ \E c \in MgrConns :
          \/ MgrAddConnection(c)
          \/ UpdateLastActive(c)
    \/ Disconnect(1)
    \/ \E id \in Ids : MgrRemoveConnection(id)
    \/ MgrCloseAllConnections
    \/ CleanupStaleConnections
    \/ Tick

SpecMgr == InitMgr /\ [][NextMgr]_vars

(***************************************************************************)
(* The InMemoryStore statement by statement.  A few goroutines call one    *)
(* operation each, as TestConcurrentDataConsistency does with Set.  An     *)
(* operation takes the lock of its kind, runs its body, DeleteMultiple one *)
(* key in a step, and returns through the deferred unlock.  Lock waits for *)
(* the writer and the readers to leave, RLock for the writer; that RLock   *)
(* also waits behind a writer that is waiting is left out, which allows    *)
(* more interleavings than the RWMutex does.  The plain map lin takes      *)
(* each operation whole at the moment the lock is taken.                   *)
(***************************************************************************)
\* the goroutines calling the store
NumCallers == 3
Callers == 1..NumCallers

\* the keys the callers use and the value of the keys present at the start
StoreKeys == {ClientKey(1), ClientKey(2)}
InitialValue == <<118, 48>>

\* what an operation returns: (value, exists) of Get, exists of Exists and
\* Delete, the count of DeleteMultiple; the fields an operation does not
\* return stay as they are here
NoReturn == [value |-> <<>>, exists |-> FALSE, count |-> 0]

\* a caller that has not called yet
NoCall ==
    [pc |-> "idle", op |-> "none", keys |-> <<>>, value |-> <<>>, i |-> 1,
     ret |-> NoReturn, expected |-> NoReturn]

\* the calls caller g may make
StoreCalls(g) ==
    {[NoCall EXCEPT !.op = "Set", !.keys = <<k>>, !.value = ClientValue(g)] :
        k \in StoreKeys}
      \cup {[NoCall EXCEPT !.op = o, !.keys = <<k>>] :
              o \in {"Get", "Exists", "Delete"}, k \in StoreKeys}
      \cup {[NoCall EXCEPT !.op = "DeleteMultiple", !.keys = ks] :
              ks \in {<<ClientKey(1), ClientKey(2)>>,
                      <<ClientKey(2), ClientKey(2)>>}}

\* the operations that take the write lock
Writes == {"Set", "Delete", "DeleteMultiple"}

\* the operation of call cl on the plain map m, whole: the map after it and
\* what it returns
Sequential(cl, m) ==
    CASE cl.op = "Set" ->
            [data |-> Set(m, cl.keys[1], cl.value), ret |-> NoReturn]
      [] cl.op = "Get" ->
            [data |-> m,
             ret |-> [NoReturn EXCEPT !.value = Get(m, cl.keys[1]).value,
                                      !.exists = Get(m, cl.keys[1]).exists]]
      [] cl.op = "Exists" ->
            [data |-> m, ret |-> [NoReturn EXCEPT !.exists = Exists(m, cl.keys[1])]]
      [] cl.op = "Delete" ->
            [data |-> Delete(m, cl.keys[1]).data,
             ret |-> [NoReturn EXCEPT !.exists = Delete(m, cl.keys[1]).exists]]
      [] cl.op = "DeleteMultiple" ->
            [data |-> DeleteMultiple(m, cl.keys).data,
             ret |-> [NoReturn EXCEPT !.count = DeleteMultiple(m, cl.keys).count]]

InitStore ==
    /\ cval = MkNullArray
    /\ cwire = <<>>
    /\ cres = NoResult
    /\ cpc = "off"
    /\ \E present \in SUBSET StoreKeys :
          data = [k \in present |-> InitialValue]
    /\ lin = data
    /\ last = NoRequest
    /\ ref = [k \in Strs |-> Absent]
    /\ mutex = Unlocked
    /\ calls = [g \in Callers |-> NoCall]
    /\ ServerIdle

\* goroutine g calls an operation
StoreCall(g) ==
    /\ calls[g].pc = "idle"
    /\ \E cl \in StoreCalls(g) :
          calls' = [calls EXCEPT ![g] = [cl EXCEPT !.pc = "lock"]]
    /\ UNCHANGED <<data, last, ref, mutex, lin>>
    /\ UNCHANGED codecVars
    /\ UNCHANGED serverVars

\* mutant: a write lock that does not wait for the readers
LockBesideReaders(g) ==
    /\ calls[g].pc = "lock"
    /\ calls[g].op \in Writes
    /\ mutex.writer = 0
    /\ mutex' = [mutex EXCEPT !.writer = g]
    /\ lin' = Sequential(calls[g], lin).data
    /\ calls' = [calls EXCEPT ![g].pc = "body",
                              ![g].expected = Sequential(calls[g], lin).ret]
    /\ UNCHANGED <<data, last, ref>>
    /\ UNCHANGED codecVars
    /\ UNCHANGED serverVars

\* s.mutex.Lock() of Set, Delete and DeleteMultiple
Lock(g) ==
    /\ calls[g].pc = "lock"
    /\ calls[g].op \in Writes
    /\ mutex.writer = 0
    /\ mutex.readers = {}
    /\ mutex' = [mutex EXCEPT !.writer = g]
    /\ lin' = Sequential(calls[g], lin).data
    /\ calls' = [calls EXCEPT ![g].pc = "body",
                              ![g].expected = Sequential(calls[g], lin).ret]
    /\ UNCHANGED <<data, last, ref>>
    /\ UNCHANGED codecVars
    /\ UNCHANGED serverVars

\* s.mutex.RLock() of Get and Exists
RLock(g) ==
    /\ calls[g].pc = "lock"
    /\ calls[g].op \notin Writes
    /\ mutex.writer = 0
    /\ mutex' = [mutex EXCEPT !.readers = @ \cup {g}]
    /\ calls' = [calls EXCEPT ![g].pc = "body",
                              ![g].expected = Sequential(calls[g], lin).ret]
    /\ UNCHANGED <<data, last, ref, lin>>
    /\ UNCHANGED codecVars
    /\ UNCHANGED serverVars

\* the statements between the lock and the return: the assignment of Set,
\* the lookup of Get and of Exists, the lookup and delete of Delete, one
\* iteration of the loop of DeleteMultiple
StoreBody(g) ==
    /\ calls[g].pc = "body"
    /\ LET cl == calls[g]
           key == cl.keys[cl.i]
       IN  CASE cl.op = "Set" ->
                  /\ data' = Set(data, key, cl.value)
                  /\ calls' = [calls EXCEPT ![g].pc = "unlock"]
             [] cl.op = "Get" ->
                  /\ calls' = [calls EXCEPT
                                 ![g].pc = "unlock",
                                 ![g].ret.value = Get(data, key).value,
                                 ![g].ret.exists = Get(data, key).exists]
                  /\ UNCHANGED data
             [] cl.op = "Exists" ->
                  /\ calls' = [calls EXCEPT ![g].pc = "unlock",
                                            ![g].ret.exists = Exists(data, key)]
                  /\ UNCHANGED data
             [] cl.op = "Delete" ->
                  /\ data' = Delete(data, key).data
                  /\ calls' = [calls EXCEPT
                                 ![g].pc = "unlock",
                                 ![g].ret.exists = Delete(data, key).exists]
             [] cl.op = "DeleteMultiple" ->
                  LET step == DeleteLoop(data, <<key>>, cl.ret.count)
                  IN  /\ data' = step.data
                      /\ calls' = [calls EXCEPT
                                     ![g].ret.count = step.count,
                                     ![g].i = @ + 1,
                                     ![g].pc = IF cl.i = Len(cl.keys)
                                               THEN "unlock" ELSE "body"]
    /\ UNCHANGED <<last, ref, mutex, lin>>
    /\ UNCHANGED codecVars
    /\ UNCHANGED serverVars

\* the deferred s.mutex.Unlock() or s.mutex.RUnlock(), and the return
Unlock(g) ==
    /\ calls[g].pc = "unlock"
    /\ mutex' = IF calls[g].op \in Writes
                THEN [mutex EXCEPT !.writer = 0]
                ELSE [mutex EXCEPT !.readers = @ \ {g}]
    /\ calls' = [calls EXCEPT ![g].pc = "done"]
    /\ UNCHANGED <<data, last, ref, lin>>
    /\ UNCHANGED codecVars
    /\ UNCHANGED serverVars

NextStore ==
    \E g \in Callers :
        \/ StoreCall(g)
        \/ Lock(g)
        \/ RLock(g)
        \/ StoreBody(g)
        \/ Unlock(g)

SpecStore == InitStore /\ [][NextStore]_vars

(***************************************************************************)
(* C1                                                                      *)
(***************************************************************************)
\* no SimpleString or Error text of v, at any depth, contains pat
RECURSIVE TextFree(_, _)
TextFree(v, pat) ==
    CASE v.Type \in {"SimpleString", "Error"} -> ~Contains(v.Str, pat)
      [] v.Type = "Array" /\ ~v.Null ->
            \A i \in 1..Len(v.Array) : TextFree(v.Array[i], pat)
      [] OTHER -> TRUE

RoundTrips == cres.err = NilErr /\ respValuesEqual(cval, cres.val)

\* C1 as stated: every value whose SimpleString/Error texts are free of the
\* sequence CR LF parses back from its serialization to an equal value.
C1_RoundTripNoCRLF ==
    (cpc = "parsed" /\ TextFree(cval, CRLF)) => RoundTrips

\* C1 amended: every value whose SimpleString/Error texts are free of the
\* byte LF parses back from its serialization to an equal value, and the
\* parse consumes the whole serialization.
C1_RoundTripNoLF ==
    (cpc = "parsed" /\ TextFree(cval, <<LF>>)) => (RoundTrips /\ cres.rest = <<>>)

\* a nested array holding a bulk string with CR LF in it has been parsed back
C1_Witness ==
    /\ cpc = "parsed"
    /\ TextFree(cval, <<LF>>)
    /\ Depth(cval) = 2
    /\ Len(cval.Array) = 2
    /\ cval.Array[2] = MkBulkString(CRLF)
    /\ cval.Array[1].Array = <<MkBulkString(<<LF, NUL>>)>>
(***************************************************************************)
(* C2 .. C9: the server answering one connection (SpecExec)                *)
(***************************************************************************)
Answered(kind) == last.phase = "answered" /\ last.kind = kind

\* the store as it was before the request is the store after it
StoreUnchanged == data = last.pre

\* C2: once a SET k v was answered and no later request wrote k, get(k)
\* returns (v, true), and a GET k is answered with BulkString(v); v may be
\* empty or hold CR, LF and NUL.
C2_SetThenGet ==
    /\ \A k \in Strs :
          ref[k].set => Get(data, k) = [value |-> ref[k].value, exists |-> TRUE]
    /\ (Answered("GET") /\ Len(last.args) = 1 /\ last.refpre[last.args[1]].set)
          => last.resp = MkBulkString(last.refpre[last.args[1]].value)

\* a GET of the empty key, set to the string with CR, LF and NUL, was answered
C2_Witness ==
    /\ Answered("GET")
    /\ last.args = <<StrEmpty>>
    /\ last.refpre[StrEmpty] = Present(StrBinary)
    /\ last.resp = MkBulkString(StrBinary)

\* C3: the store always holds exactly what the reference map holds (for each
\* key the value of the latest SET not followed by a DEL of it), and GET,
\* EXISTS, DEL and SET of one key are answered as the reference map says.
C3_RefinesMap ==
    /\ DOMAIN data = {k \in Strs : ref[k].set}
    /\ \A k \in DOMAIN data : data[k] = ref[k].value
    /\ (Answered("GET") /\ Len(last.args) = 1) =>
          last.resp = IF last.refpre[last.args[1]].set
                      THEN MkBulkString(last.refpre[last.args[1]].value)
                      ELSE MkNullBulkString
    /\ (Answered("EXISTS") /\ Len(last.args) = 1) =>
          last.resp = MkInteger(IF last.refpre[last.args[1]].set THEN 1 ELSE 0)
    /\ (Answered("DEL") /\ Len(last.args) = 1) =>
          /\ last.resp = MkInteger(IF last.refpre[last.args[1]].set THEN 1 ELSE 0)
          /\ ~ref[last.args[1]].set
    /\ (Answered("SET") /\ Len(last.args) = 2) =>
          /\ last.resp = MkSimpleString(OK)
          /\ ref[last.args[1]] = Present(last.args[2])

\* a SET of a key that held another value was answered: the key is overwritten
C3_Witness ==
    /\ Answered("SET")
    /\ last.args = <<StrBinary, StrEmpty>>
    /\ last.refpre[StrBinary] = Present(StrBinary)
    /\ data[StrBinary] = StrEmpty
    /\ ref[StrEmpty] = Deleted

\* C4: a GET of a key never set or deleted finds nothing and is answered
\* with the null bulk string ($-1), a GET of a key set to the empty string
\* with the empty bulk string ($0).
C4_GetMissVsEmpty ==
    (Answered("GET") /\ Len(last.args) = 1) =>
        /\ ~last.refpre[last.args[1]].set =>
              /\ ~Get(last.pre, last.args[1]).exists
              /\ last.resp = MkNullBulkString
              /\ last.out = <<36, 45, 49, 13, 10>>
        /\ last.refpre[last.args[1]] = Present(<<>>) =>
              /\ last.resp = MkBulkString(<<>>)
              /\ last.out = <<36, 48, 13, 10, 13, 10>>

\* a GET of a deleted key was answered while the other key holds the empty
\* string
C4_Witness ==
    /\ Answered("GET")
    /\ last.args = <<StrBinary>>
    /\ last.refpre[StrBinary] = Deleted
    /\ last.refpre[StrEmpty] = Present(<<>>)
    /\ last.out = <<36, 45, 49, 13, 10>>

\* the number of positions of args whose key is in the store d
PresentPositions(args, d) ==
    Cardinality({i \in 1..Len(args) : args[i] \in DOMAIN d})

C6_DelCount ==
    (Answered("DEL") /\ Len(last.args) >= 1) =>
        /\ last.resp =
              MkInteger(Cardinality(Range(last.args) \cap DOMAIN last.pre))
        /\ data = [k \in (DOMAIN last.pre) \ Range(last.args) |-> last.pre[k]]

\* DEL a a with a and b present was answered 1 and b is still there
C6_Witness ==
    /\ Answered("DEL")
    /\ last.args = <<StrBinary, StrBinary>>
    /\ DOMAIN last.pre = {StrBinary, StrEmpty}
    /\ last.resp = MkInteger(1)
    /\ DOMAIN data = {StrEmpty}

\* C7: PING answers PONG with no argument, BulkString(m) with the one
\* argument m and the wrong-number-of-arguments error with more; the answer
\* does not depend on the store and the store is unchanged.
C7_Ping ==
    Answered("PING") =>
        /\ Len(last.args) = 0 => last.resp = MkSimpleString(PONG)
        /\ Len(last.args) = 1 => last.resp = MkBulkString(last.args[1])
        /\ Len(last.args) >= 2 =>
              last.resp = MkError(ErrWrongArgsPrefix \o PING \o ErrWrongArgsSuffix)
        /\ StoreUnchanged

\* Ping with the string holding CR, LF and NUL was answered, the store not
\* being empty
C7_Witness ==
    /\ Answered("PING")
    /\ last.name # PING
    /\ last.args = <<StrBinary>>
    /\ last.resp = MkBulkString(StrBinary)
    /\ DOMAIN data # {}

\* C8: a command whose name in upper case is none of the five is answered
\* with an Error whose text contains that name, and the store is unchanged.
C8_UnknownCommand ==
    Answered("OTHER") =>
        /\ last.resp.Type = "Error"
        /\ Contains(last.resp.Str, last.upper)
        /\ StoreUnchanged

\* pong with two arguments was answered with an error, the store not being
\* empty
C8_Witness ==
    /\ Answered("OTHER")
    /\ last.upper = PONG
    /\ Len(last.args) = 2
    /\ last.resp.Type = "Error"
    /\ DOMAIN data # {}

\* C9: SET without exactly 2 arguments, GET without exactly 1, EXISTS and DEL
\* with none are answered with an Error and leave the store as it was; SET
\* with 2 arguments is answered OK.
C9_WrongArity ==
    /\ (Answered("SET") /\ Len(last.args) # 2) =>
          last.resp.Type = "Error" /\ StoreUnchanged
    /\ (Answered("GET") /\ Len(last.args) # 1) =>
          last.resp.Type = "Error" /\ StoreUnchanged
    /\ ((Answered("EXISTS") \/ Answered("DEL")) /\ Len(last.args) = 0) =>
          last.resp.Type = "Error" /\ StoreUnchanged
    /\ (Answered("SET") /\ Len(last.args) = 2) => last.resp = MkSimpleString(OK)

\* SET with three arguments was answered with an error, the store not being
\* empty
C9_Witness ==
    /\ Answered("SET")
    /\ Len(last.args) = 3
    /\ last.resp.Type = "Error"
    /\ DOMAIN data # {}
(***************************************************************************)
(* C10                                                                     *)
(***************************************************************************)
\* "+OK\r\n" and "$2\r\nv<c>\r\n", the answers client c expects
ExpectedAnswers(c) ==
    <<(<<43, 79, 75, 13, 10>>), (<<36, 50, 13, 10, 118, 48 + c, 13, 10>>)>>

\* the worker of c registered c with the connection manager
Served(c) == sess[c].id # 0

\* the answers connection c has received are the first of those it
\* expects, and from the answer to its SET on its key holds its value
AnswersInOrder(c) ==
    /\ Len(net[c].outbuf) <= 2
    /\ \A i \in 1..Len(net[c].outbuf) :
          net[c].outbuf[i] = ExpectedAnswers(c)[i]
    /\ Len(net[c].outbuf) >= 1 =>
          /\ ClientKey(c) \in DOMAIN data
          /\ data[ClientKey(c)] = ClientValue(c)

\* a served connection still owed an answer is never stuck: its client can
\* write the next request, or its worker holds a command or an answer, or
\* the bytes received hold a whole request for the worker to read
NeverStuck(c) ==
    Served(c) /\ net[c].outbuf # ExpectedAnswers(c) =>
        \/ net[c].sent < 2 /\ Len(net[c].outbuf) = net[c].sent
        \/ sess[c].pc \in {"exec", "write"}
        \/ /\ sess[c].pc = "read"
           /\ Parse(net[c].inbuf).err \notin {EOF, ErrUnexpectedEOF}

IsPrefix(p, t) == Len(p) <= Len(t) /\ SubSeq(t, 1, Len(p)) = p

\* the worker w holds the protocol error for malformed input: Parse failed,
\* and not because the stream ended or the transport failed
Malformed(w) ==
    /\ w.kind = "parse"
    /\ w.response \notin {ProtocolError(e) :
                            e \in {ErrUnexpectedEOF, ErrTimeout, ErrReset, ErrClosed}}

\* C11: a read that fails on malformed input leaves the worker holding an
\* Error value that begins "ERR Protocol error: ", the store and the tracked
\* connections unchanged; the worker then writes that value (it reaches the
\* client whenever the transport takes writes), stays registered with its
\* transport open, and is back at reading the next request
C11_MalformedInput ==
    [][\A c \in Conns :
          /\ (sess[c].pc = "read" /\ sess'[c].pc = "write" /\ Malformed(sess'[c])) =>
                /\ sess'[c].response.Type = "Error"
                /\ IsPrefix(ErrProtocolPrefix, sess'[c].response.Str)
                /\ data' = data
                /\ conns' = conns
          /\ (sess[c].pc = "write" /\ Malformed(sess[c]) /\ sess'[c].pc # "write") =>
                /\ sess'[c].pc = "read"
                /\ ~WriteFails(c) =>
                      net'[c].outbuf =
                          Append(net[c].outbuf, <<45>> \o sess[c].response.Str \o CRLF)
                /\ data' = data
                /\ conns' = conns
                /\ sess[c].id \in DOMAIN conns'
                /\ ~net'[c].serverClosed]_vars

\* "-ERR Protocol error: invalid bulk string length: x\r\n" was written for
\* "$x\r\n" and the worker holds the SET that came behind it
C11_Witness ==
    /\ net[1].outbuf = <<(<<45>> \o ErrProtocolPrefix \o ErrBulkLength \o <<120>> \o CRLF)>>
    /\ sess[1].pc = "exec"
    /\ sess[1].cmd.Name = SET
    /\ sess[1].id \in DOMAIN conns

\* C12: once a read of the worker of c has failed with an error of the
\* transport, the worker is never again at Parse on that transport: it has
\* left the loop
C12_ReadErrorCloses ==
    \A c \in Conns : sess[c].rfailed => sess[c].pc # "read"

\* the read deadline of connection 1 has passed, a read has failed with the
\* timeout, and the worker, still registered, is at Parse again
C12_Witness ==
    /\ sess[1].rfailed
    /\ sess[1].pc = "read"
    /\ net[1].rerr = ErrTimeout
    /\ sess[1].id \in DOMAIN conns

\* C13: once a write of the worker of c has failed, the worker has left the
\* loop: it reads no further request and goes on to unregister
C13_WriteErrorCloses ==
    \A c \in Conns : sess[c].wfailed => sess[c].pc \in {"remove", "done"}

\* the write of a protocol error has failed and the worker, still
\* registered, holds the SET it read after it
C13_Witness ==
    /\ sess[1].wfailed
    /\ sess[1].pc = "exec"
    /\ sess[1].cmd.Name = SET
    /\ sess[1].id \in DOMAIN conns

C15_RejectedAtLimit ==
    [][\A c \in Conns :
          /\ (sess[c].pc = "add" /\ sess'[c].pc = "rejected") =>
                /\ Cardinality(DOMAIN conns) >= MaxClients
                /\ net'[c].serverClosed
                /\ conns' = conns
                /\ data' = data
          /\ sess[c].pc = "rejected" =>
                /\ sess'[c] = [NoWorker EXCEPT !.pc = "rejected"]
                /\ net'[c].outbuf = <<>>
                /\ net'[c].inbuf = net'[c].wrote
                /\ net'[c].serverClosed
                /\ c \notin {conns'[i] : i \in DOMAIN conns'}]_vars

\* a connection was turned away while MaxClients others were tracked, after
\* its client had written its SET, which stays unread and unanswered
C15_Witness ==
    \E c \in Conns :
        /\ sess[c].pc = "rejected"
        /\ Cardinality(DOMAIN conns) = MaxClients
        /\ net[c].inbuf = Script(c)[1]
        /\ net[c].outbuf = <<>>
        /\ ClientKey(c) \notin DOMAIN data

(***************************************************************************)
(* C16, C17: shutdown (SpecStop, SpecStopFair)                             *)
(***************************************************************************)
\* no worker runs and no connection is tracked
AllWorkersGone ==
    /\ conns = <<>>
    /\ \A c \in Conns : sess[c].pc \in {"idle", "rejected", "done"}

\* the worker of c registered c after cancel() had run
RegisteredAfterStop(c) ==
    srv.cancelled /\ sess[c].id > srv.before

\* C16: from cancel() on, the workers all exit and no connection stays
\* tracked, for good; and a worker that registered its connection after
\* cancel() reads no byte of it, holds no command, writes nothing and goes
\* straight to unregistering
C16_WorkersExit ==
    /\ srv.cancelled ~> []AllWorkersGone
    /\ [](\A c \in Conns :
            RegisteredAfterStop(c) =>
                /\ sess[c].pc \in {"remove", "done"}
                /\ sess[c].cmd = NilCommand
                /\ net[c].inbuf = net[c].wrote
                /\ net[c].outbuf = <<>>)

\* shutdown ended with no worker left: one worker was waiting for bytes
\* when its transport was closed, another registered after cancel() with a
\* request of its client waiting unread
C16_Witness ==
    /\ srv.stop = "done"
    /\ AllWorkersGone
    /\ \E c, d \in Conns :
          /\ sess[c].pc = "done" /\ sess[c].rfailed /\ net[c].wrote = <<>>
          /\ sess[d].pc = "done" /\ RegisteredAfterStop(d)
          /\ net[d].inbuf # <<>>

\* C17: when the shutdown is reported complete, cancel() has run, the
\* listener is closed so that the accept loop takes no connection,
\* CloseAllConnections has run, so that every transport registered before
\* cancel() is closed, and either the accept loop and every worker have
\* returned or the timeout has fired
C17_ReportedLast ==
    srv.reported =>
        /\ srv.cancelled
        /\ ~srv.listening
        /\ srv.stop = "done"
        /\ \/ srv.timedOut
           \/ /\ srv.apc = "done"
              /\ \A c \in Conns : sess[c].pc \in {"idle", "rejected", "done"}
        /\ \A c \in Conns :
              sess[c].id \in 1..srv.before => net[c].serverClosed

\* the shutdown was reported complete without the timeout, after a worker
\* that had served a SET returned
C17_Witness ==
    /\ srv.reported
    /\ ~srv.timedOut
    /\ sess[1].pc = "done"
    /\ net[1].outbuf # <<>>

(***************************************************************************)
(* C19: a SET that has returned is seen by later requests (SpecVis)        *)
(***************************************************************************)
\* what a request req may be answered when r SETs of the key had returned
\* as it was sent: anything a GET or EXISTS answers when none had, else the
\* key present with the value of the r-th SET or of a later one
AnswersAfter(req, r) ==
    IF r = 0
    THEN {Serialize(MkNullBulkString), Serialize(MkInteger(0)),
          Serialize(MkInteger(1))}
         \cup {Serialize(MkBulkString(v)) : v \in Range(Written)}
    ELSE IF req = RequestBytes(GET, <<ClientKey(1)>>)
         THEN {Serialize(MkBulkString(Written[j])) : j \in r..Len(Written)}
         ELSE {Serialize(MkInteger(1))}

\* C19: the answer to a GET or EXISTS of the key, sent when a SET of the key
\* had returned, says the key is present and, for GET, carries the value of
\* that SET or of a later one; this for every request answered and for the
\* answer a worker holds
C19_SetVisible ==
    \A c \in Conns :
        /\ Len(net[c].seen) > 0 => Len(net[c].outbuf) <= Len(net[c].seen)
        /\ \A i \in 1..Len(net[c].seen) :
              /\ i <= Len(net[c].outbuf) =>
                    net[c].outbuf[i] \in AnswersAfter(net[c].seen[i].req,
                                                      net[c].seen[i].returned)
              /\ (i = Len(net[c].outbuf) + 1 /\ sess[c].pc = "write") =>
                    Serialize(sess[c].response) \in
                        AnswersAfter(net[c].seen[i].req, net[c].seen[i].returned)

\* the reader sent EXISTS and then GET, each when the first SET had returned
\* and the second had not, and was answered 1 and then the second value
C19_Witness ==
    /\ Len(net[2].seen) = 2
    /\ \A i \in 1..2 : net[2].seen[i].returned = 1
    /\ net[2].outbuf = <<Serialize(MkInteger(1)),
                         Serialize(MkBulkString(Written[2]))>>

(***************************************************************************)
(* C20: a failing connection beside a working one (SpecIso)                *)
(***************************************************************************)
\* the worker of connection 2 has executed the SET of its client
SetExecuted ==
    \/ Len(net[2].outbuf) >= 1
    \/ sess[2].pc = "write" /\ sess[2].cmd.Name = SET

\* connection 2 is served as if it were alone: it receives OK and then its
\* value, is never stuck before, its reads and writes do not fail, and
\* until its client has both answers its worker runs, registered, with the
\* transport open; the store holds what connection 2 set and nothing else
ServedAsAlone ==
    /\ AnswersInOrder(2)
    /\ NeverStuck(2)
    /\ ~sess[2].rfailed /\ ~sess[2].wfailed
    /\ (Served(2) /\ net[2].outbuf # ExpectedAnswers(2)) =>
          /\ sess[2].pc \in {"read", "exec", "write"}
          /\ sess[2].id \in DOMAIN conns
          /\ conns[sess[2].id] = 2
          /\ ~net[2].serverClosed
    /\ data = IF SetExecuted
              THEN Set(NewInMemoryStore, ClientKey(2), ClientValue(2))
              ELSE NewInMemoryStore

\* a step of connection 1: of its client, its transport or its worker
StepOfFailing ==
    sess'[1] # sess[1] \/ net'[1] # net[1]

IsBulk(e) == e.Type = "BulkString" /\ ~e.Null

\* a non-null, non-empty Array all of whose elements are BulkStrings
ArrayOfBulk(v) ==
    /\ v.Type = "Array"
    /\ ~v.Null
    /\ Len(v.Array) > 0
    /\ \A i \in 1..Len(v.Array) : IsBulk(v.Array[i])

\* C22: ParseCommand returns a command exactly for a non-null, non-empty
\* Array of BulkStrings and an error and no command for every other value;
\* the name of the command is the text of the first element with a..z
\* replaced by A..Z, so get, Get and GET all give GET, and the arguments
\* are the texts of the other elements, as sent and in order
C22_ToCommand ==
    cpc = "command" =>
        /\ (cres.err = NilErr) <=> ArrayOfBulk(cval)
        /\ cres.err # NilErr => cres.cmd = NilCommand
        /\ cres.err = NilErr =>
              /\ Len(cres.cmd.Name) = Len(cval.Array[1].Str)
              /\ \A i \in 1..Len(cres.cmd.Name) :
                    LET b == cval.Array[1].Str[i]
                    IN  cres.cmd.Name[i] = IF b \in 97..122 THEN b - 32 ELSE b
              /\ cval.Array[1].Str \in {GET, GetLower, GetMixed} =>
                    cres.cmd.Name = GET
              /\ Len(cres.cmd.Args) = Len(cval.Array) - 1
              /\ \A i \in 1..Len(cres.cmd.Args) :
                    cres.cmd.Args[i] = cval.Array[i + 1].Str

\* "Get" sent with the arguments "a\r\n\0" and "" gives GET with these two
\* arguments
C22_Witness ==
    /\ cpc = "command"
    /\ cval = MkArray(<<MkBulkString(GetMixed), MkBulkString(StrBinary),
                        MkBulkString(StrEmpty)>>)
    /\ cres = CommandResult(NilErr, Command(GET, <<StrBinary, StrEmpty>>))

(***************************************************************************)
(* C23: a value that is no command (SpecSess)                              *)
(***************************************************************************)
\* C23: Execute is reached only from a read whose value parsed and is a
\* non-null, non-empty Array of BulkStrings, and the store changes only in
\* a step of Execute.  A read whose value parsed and is no such Array
\* leaves the worker holding an Error value that begins
\* "ERR Protocol error: ", the store unchanged; the worker then writes that
\* value (it reaches the client whenever the transport takes writes) and is
\* back at reading, registered, its transport open.
C23_NoCommandNoExecute ==
    [][/\ \A c \in Conns :
            LET p == Parse(net[c].inbuf)
            IN  /\ (sess[c].pc = "read" /\ sess'[c].pc = "exec") =>
                      /\ p.err = NilErr
                      /\ ArrayOfBulk(p.val)
                /\ (sess[c].pc # "exec" /\ sess'[c].pc = "exec") =>
                      sess[c].pc = "read"
                /\ (sess[c].pc = "read" /\ sess'[c].pc # "read"
                      /\ (ReadError(c) = NilErr \/ sess'[c].kind # "parse")
                      /\ p.err = NilErr /\ ~ArrayOfBulk(p.val)) =>
                      /\ sess'[c].pc = "write"
                      /\ sess'[c].kind = "command"
                      /\ sess'[c].response.Type = "Error"
                      /\ IsPrefix(ErrProtocolPrefix, sess'[c].response.Str)
                      /\ data' = data
                /\ (sess[c].pc = "write" /\ sess[c].kind = "command"
                      /\ sess'[c].pc # "write") =>
                      /\ sess'[c].pc = "read"
                      /\ ~WriteFails(c) =>
                            net'[c].outbuf =
                                Append(net[c].outbuf,
                                       <<45>> \o sess[c].response.Str \o CRLF)
                      /\ data' = data
                      /\ sess[c].id \in DOMAIN conns'
                      /\ ~net'[c].serverClosed
       /\ data' # data => \E c \in Conns : sess[c].pc = "exec"]_vars

\* "-ERR Protocol error: command must be an array\r\n" was written for
\* "+OK\r\n" and the worker holds the SET that came behind it, the store
\* still empty
C23_Witness ==
    /\ net[1].outbuf = <<(<<45>> \o ErrProtocolPrefix \o ErrCmdNotArray \o CRLF)>>
    /\ net[1].wrote = Serialize(MkSimpleString(OK))
                        \o RequestBytes(SET, <<ClientKey(1), ClientValue(1)>>)
    /\ sess[1].pc = "exec"
    /\ sess[1].cmd.Name = SET
    /\ data = NewInMemoryStore

(***************************************************************************)
(* C21: accepting beside sessions in flight (SpecBusyFair)                 *)
(***************************************************************************)
\* "+PONG\r\n"
PongAnswer == <<43>> \o PONG \o CRLF

\* a registered connection that sends PING gets PONG and nothing else, and
\* before it has it one of its client, its transport and its worker can
\* take a step
PingAnswered(c) ==
    /\ net[c].outbuf \in {<<>>, <<PongAnswer>>}
    /\ (Served(c) /\ net[c].outbuf = <<>>) =>
          \/ net[c].sent = 0
          \/ sess[c].pc \in {"exec", "write"}
          \/ sess[c].pc = "read" /\ net[c].inbuf = RequestBytes(PING, <<>>)

\* C21: a connection waiting to be accepted can be accepted at once,
\* wherever the sessions in flight are, and it is accepted and then
\* registered, or turned away at the limit, even when every other session
\* waits for ever for bytes of its client; it is turned away only with
\* MaxClients connections tracked, and once registered its PING is
\* answered with PONG without its worker waiting for another session
C21_AcceptNotBlocked ==
    /\ \A c \in Conns :
          (net[c].state = "pending") ~> (Served(c) \/ sess[c].pc = "rejected")
    /\ [](\A c \in Conns :
            /\ net[c].state = "pending" =>
                  srv.apc = "accept" /\ srv.listening /\ sess[c].pc = "idle"
            /\ PingAnswered(c))
    /\ [][\A c \in Conns :
            (sess[c].pc = "add" /\ sess'[c].pc = "rejected") =>
                Cardinality(DOMAIN conns) >= MaxClients]_vars

\* a connection registered after another has its PONG while the earlier
\* one, still registered, waits at Parse for a client that has sent nothing
C21_Witness ==
    \E c, d \in Conns :
        /\ c # d
        /\ sess[d].pc = "read"
        /\ net[d].sent = 0
        /\ sess[d].id \in DOMAIN conns
        /\ sess[c].id > sess[d].id
        /\ net[c].outbuf = <<PongAnswer>>

\* the answers, in order, to the requests in the bytes b, served one after
\* another from the store d
RECURSIVE AnswersTo(_, _)
AnswersTo(b, d) ==
    LET it == Iteration(b, d)
    IN  IF Parse(b).err \in {EOF, ErrUnexpectedEOF} THEN <<>>
        ELSE <<it.out>> \o AnswersTo(it.rest, it.data)

\* the bytes of the client of c the worker has taken from the transport
Consumed(c) ==
    SubSeq(net[c].wrote, 1, Len(net[c].wrote) - Len(net[c].inbuf))

\* C18: on a connection whose transport has not failed, whenever the worker
\* is at reading the next request the answers written are exactly the
\* answers to the requests read so far, in the order of the requests; while
\* it holds a request, all answers but the one to that request are written
C18_OneAfterAnother ==
    \A c \in Conns :
        (~sess[c].rfailed /\ ~sess[c].wfailed
           /\ sess[c].pc \in {"read", "exec", "write", "remove", "done"}) =>
            LET a == AnswersTo(Consumed(c), NewInMemoryStore)
            IN  IF sess[c].pc \in {"exec", "write"}
                THEN a # <<>> /\ net[c].outbuf = SubSeq(a, 1, Len(a) - 1)
                ELSE net[c].outbuf = a

\* the worker holds the answer to SET, not yet written, while the next
\* request of the client is already on the transport
C18_Witness ==
    /\ sess[1].pc = "write"
    /\ sess[1].cmd.Name = SET
    /\ net[1].outbuf = <<>>
    /\ net[1].inbuf = RequestBytes(FOO, <<>>)
    /\ ~sess[1].rfailed /\ ~sess[1].wfailed

(***************************************************************************)
(* C24: unregistration and the closing of the transport (SpecLife)         *)
(***************************************************************************)
\* the worker of c has left handleConnection after it had registered
Exited(c) == sess[c].pc = "done"

AddReturns(c) == sess[c].pc = "idle" /\ sess'[c].pc # "idle"

\* the call on c returned nil: nothing tracked anew, nothing touched
AddRefused(c) ==
    /\ sess'[c].pc = "full"
    /\ conns' = conns
    /\ net' = net
    /\ issued' = issued

\* the call on c returned a record, tracked under its identifier
AddSucceeded(c) ==
    /\ sess'[c].pc = "held"
    /\ sess'[c].id \notin DOMAIN conns
    /\ DOMAIN conns' = DOMAIN conns \cup {sess'[c].id}
    /\ conns'[sess'[c].id] = c
    /\ \A i \in DOMAIN conns : conns'[i] = conns[i]

\* C25 as stated: whatever the maximum, AddConnection returns nil, tracks
\* nothing and leaves the transport alone when the connections tracked have
\* reached the maximum, and succeeds otherwise
C25_AnyMaximum ==
    [][\A c \in Conns :
         AddReturns(c) =>
            IF GetActiveCount >= srv.maxClients
            THEN AddRefused(c)
            ELSE AddSucceeded(c)]_vars

\* C25 amended: with a positive maximum AddConnection returns nil, tracks
\* nothing and leaves the transport alone when the connections tracked have
\* reached the maximum, and succeeds otherwise; with a maximum of zero or
\* less it always succeeds
C25_PositiveMaximum ==
    [][\A c \in Conns :
         AddReturns(c) =>
            IF srv.maxClients > 0 /\ GetActiveCount >= srv.maxClients
            THEN AddRefused(c)
            ELSE AddSucceeded(c)]_vars

\* with a maximum of one a transport was refused beside the one tracked and
\* is as it was handed in
C25_Witness ==
    /\ srv.maxClients = 1
    /\ GetActiveCount = 1
    /\ \E c \in Conns :
          /\ sess[c].pc = "full"
          /\ net[c] = [NoTransport EXCEPT !.state = "open"]

(***************************************************************************)
(* C26: the count and the lookup follow the calls (SpecMgr)                *)
(***************************************************************************)
\* the transports whose record is tracked under the identifier the caller
\* got for it
Tracked == {c \in Conns : sess[c].pc = "held" /\ GetConnection(sess[c].id) = c}

C27_RemoveIdempotent ==
    /\ [][/\ \A id \in Ids \ DOMAIN conns :
               MgrRemoveConnection(id) => UNCHANGED <<conns, net, issued, srv>>
          /\ \A c \in Conns :
               (sess'[c].kind = "absent" /\ sess[c].kind # "absent") =>
                  UNCHANGED <<conns, net, issued, srv>>]_vars
    /\ [](\A c \in Conns :
            /\ net[c].closes <= 1
            /\ sess[c].kind = "absent" =>
                  net[c].closes = 1 /\ GetConnection(sess[c].id) = 0)

\* two records, an old one and a fresh one, that were removed and whose
\* identifiers were then handed to RemoveConnection, which did not find
\* them; each is closed once and a third record is tracked as before
C27_Witness ==
    \E c, d \in Conns :
        /\ c # d
        /\ sess[c].kind = "absent" /\ sess[d].kind = "absent"
        /\ net[c].closes = 1 /\ net[d].closes = 1
        /\ net[c].lastActive = 0 /\ net[d].lastActive = MaxNow
        /\ GetActiveCount = 1

(***************************************************************************)
(* C28: CleanupStaleConnections goes by the timestamps (SpecMgr)           *)
(***************************************************************************)
\* the record that wraps transport c was last active more than the timeout
\* ago
OlderThanTimeout(c) == srv.now - net[c].lastActive > StaleTimeout

\* C28: a call of CleanupStaleConnections closes and deletes every tracked
\* record last active more than staleTimeout ago and leaves every other
\* tracked record tracked, with its transport as it was, whether the
\* transport is alive or not; right after a call no tracked record is that
\* old
C28_ReapsByTimestamp ==
    /\ [][srv'.swept # srv.swept =>
            \A id \in DOMAIN conns :
               IF OlderThanTimeout(conns[id])
               THEN /\ GetConnection(id)' = 0
                    /\ net'[conns[id]] =
                          [net[conns[id]] EXCEPT !.serverClosed = TRUE,
                                                 !.closes = @ + 1]
               ELSE /\ GetConnection(id)' = GetConnection(id)
                    /\ net'[conns[id]] = net[conns[id]]]_vars
    /\ [](srv.swept = srv.now =>
            \A id \in DOMAIN conns : ~OlderThanTimeout(conns[id]))

\* a call has just removed a record that was too old and has left one that
\* is exactly as old as the timeout and whose transport the caller had
\* closed at both ends
C28_Witness ==
    /\ srv.swept = srv.now
    /\ GetConnection(sess[1].id) = 1
    /\ net[1].clientClosed
    /\ srv.now - net[1].lastActive = StaleTimeout
    /\ net[1].closes = 0
    /\ \E d \in Conns :
          /\ sess[d].pc = "held"
          /\ GetConnection(sess[d].id) = 0
          /\ srv.now - net[d].lastActive > StaleTimeout
          /\ net[d].closes = 1

(***************************************************************************)
(* C29: the operations of the store are atomic (SpecStore)                 *)
(***************************************************************************)
\* caller g is between taking its lock and releasing it
InCritical(g) == calls[g].pc \in {"body", "unlock"}

\* caller g has returned
Returned(g) == calls[g].pc = "done"

\* the callers that called Set on key k
SettersOf(k) == {g \in Callers : calls[g].op = "Set" /\ calls[g].keys = <<k>>}

\* C29: whatever the interleaving, a caller in the critical section of a
\* Set, Delete or DeleteMultiple is alone in the critical sections of the
\* store; what an operation returns is what it returns on the plain map
\* that takes the operations whole, one at a time, each at the moment
\* between its call and its return when its lock is taken, and the map of
\* the store is that plain map whenever no writer is inside; once every
\* caller has returned, a key that only Sets were called on holds the
\* value of one of them
C29_Linearizable ==
    /\ \A g, h \in Callers :
          (g # h /\ InCritical(g) /\ InCritical(h)) =>
              calls[g].op \notin Writes /\ calls[h].op \notin Writes
    /\ \A g \in Callers :
          /\ calls[g].pc \in {"unlock", "done"} => calls[g].ret = calls[g].expected
          /\ (InCritical(g) /\ calls[g].op \in Writes) => mutex.writer = g
          /\ (InCritical(g) /\ calls[g].op \notin Writes) => g \in mutex.readers
    /\ (\A g \in Callers : ~(InCritical(g) /\ calls[g].op \in Writes)) =>
          data = lin
    /\ (\A g \in Callers : Returned(g)) =>
          \A k \in StoreKeys :
             (SettersOf(k) # {} /\
              \A g \in Callers : calls[g].op \in Writes \ {"Set"} =>
                                    k \notin Range(calls[g].keys)) =>
                 /\ k \in DOMAIN data
                 /\ \E g \in SettersOf(k) : data[k] = calls[g].value

\* three callers have returned: two Sets of one key that was present, of
\* which the store holds the second caller's value, and a Get of the key
\* that returned the first caller's value
C29_Witness ==
    /\ \A g \in Callers : Returned(g)
    /\ SettersOf(ClientKey(1)) = {1, 2}
    /\ calls[3].op = "Get" /\ calls[3].keys = <<ClientKey(1)>>
    /\ calls[3].ret = [NoReturn EXCEPT !.value = ClientValue(1), !.exists = TRUE]
    /\ data[ClientKey(1)] = ClientValue(2)

(***************************************************************************)
(* C30: what the goroutines share besides the two maps (SpecRace)          *)
(***************************************************************************)
\* C30: the buffered writer of a record is never about to be used by its
\* worker, for the write of a response, and by Stop, for the flush of
\* CloseAllConnections, at the same time
C30_RecordNotShared == \A c \in Conns : ~Racing(c)

\* the worker of the first connection has executed the SET and stamped its
\* record, and is about to write +OK through cc.writer while Stop, inside
\* CloseAllConnections, is about to flush the same writer
C30_Witness ==
    /\ Racing(1)
    /\ sess[1].kind = "reply"
    /\ sess[1].response = MkSimpleString(OK)
    /\ ~net[1].serverClosed

(***************************************************************************)
(* The deadlines of a transport.  One client, which writes requests,       *)
(* unknown commands and malformed bytes, beside a clock; the deadline the  *)
(* worker set last passes when the clock reaches it.                       *)
(***************************************************************************)
DeadlineInputs ==
    {RequestBytes(SET, <<ClientKey(1), ClientValue(1)>>),
     RequestBytes(FOO, <<>>),
     BadLength}

InitDeadline ==
    /\ cval = MkNullArray
    /\ cwire = <<>>
    /\ cres = NoResult
    /\ cpc = "off"
    /\ ExecIdle
    /\ ServerWith([c \in Conns |->
            CASE c = 1 -> Client([i \in 1..MaxSends |-> DeadlineInputs], FALSE)
              [] OTHER -> NoClient])

\* the instant given to SetReadDeadline and SetWriteDeadline is reached:
\* from now on the reads of the transport fail with a timeout and so do
\* its writes
DeadlinePasses(c) ==
    /\ net[c].state = "open"
    /\ sess[c].id \in DOMAIN conns
    /\ ~net[c].serverClosed
    /\ net[c].rerr = NilErr /\ ~net[c].werr
    /\ srv.now >= net[c].deadline
    /\ net' = [net EXCEPT ![c].rerr = ErrTimeout, ![c].werr = TRUE]
    /\ UNCHANGED <<conns, sess, issued, srv>>
    /\ UNCHANGED execVars
    /\ UNCHANGED codecVars

NextDeadline ==
    \/ \E c \in Conns :
          \/ ClientConnect(c)
          \/ ClientWrite(c)
          \/ ClientClose(c)
          \/ AcceptConnection(c)
          \/ AddConnection(c)
          \/ ReadParse(c)
          \/ ReadFail(c)
          \/ ExecuteCommand(c)
          \/ WriteResponse(c)
          \/ RemoveConnection(c)
    \/ DeadlinePasses(1)
    \/ Tick

SpecDeadline == InitDeadline /\ [][NextDeadline]_vars

(***************************************************************************)
(* The activity timestamp of a record, over the reads and writes of its    *)
(* worker.                                                                 *)
(***************************************************************************)
\* the worker of c takes a step in which Parse returns a request
ReadSucceeds(c) == sess[c].pc = "read" /\ sess'[c].pc = "exec"

\* the worker of c takes a step in which Parse returns an error of the
\* transport
ReadFailsNow(c) == sess[c].pc = "read" /\ ~sess[c].rfailed /\ sess'[c].rfailed

\* the worker of c takes a step in which clientConn.Write returns
WriteReturns(c) == sess[c].pc = "write" /\ sess'[c].pc # "write"

\* C31: the timestamp of a record is set to the present instant by every
\* read that returns a request and by every write that succeeds, and is
\* left as it was by a read or a write that fails
C31_RefreshedOnSuccess ==
    [][\A c \in Conns :
         /\ ReadSucceeds(c) => net'[c].lastActive = srv.now
         /\ WriteReturns(c) /\ ~WriteFails(c) => net'[c].lastActive = srv.now
         /\ ReadFailsNow(c) => net'[c].lastActive = net[c].lastActive
         /\ WriteReturns(c) /\ WriteFails(c) =>
                net'[c].lastActive = net[c].lastActive]_vars

\* the worker of connection 1 holds the SET it has read at an instant
\* later than the timestamp of its record
C31_Witness ==
    /\ sess[1].pc = "exec"
    /\ sess[1].cmd.Name = SET
    /\ sess[1].id \in DOMAIN conns
    /\ net[1].lastActive < srv.now

\* C32: every iteration of the worker of c that has read a message and
\* written its answer, an error answer included, sets the deadline of the
\* transport to the present instant plus the timeout; so when a deadline
\* passes, the last answer written on the transport (or its registration)
\* is at least the timeout old
C32_DeadlineRenewed ==
    [][\A c \in Conns :
         /\ WriteReturns(c) /\ ~WriteFails(c) =>
                net'[c].deadline = srv.now + ReadTimeout
         /\ DeadlinePasses(c) =>
                srv.now - net[c].lastActive >= ReadTimeout]_vars

\* the deadline of connection 1 has passed at an instant less than the
\* timeout after the worker wrote an error answer to the client
C32_Witness ==
    /\ net[1].rerr = ErrTimeout
    /\ sess[1].pc = "read"
    /\ ~sess[1].rfailed
    /\ Len(net[1].outbuf) > 0
    /\ srv.now - net[1].lastActive < ReadTimeout

(***************************************************************************)
(* Parse on the bytes of a bulk string: the marker, a length line and up   *)
(* to MaxTail bytes after it.                                              *)
(***************************************************************************)
\* most bytes after the length line
MaxTail == 4

\* the length lines "0", "1", "2", "-1", "-2", "x" and the empty line
BulkLengths == {<<48>>, <<49>>, <<50>>, <<45, 49>>, <<45, 50>>, <<120>>, <<>>}
BulkTails == UNION {[1..k -> {97, CR, LF}] : k \in 0..MaxTail}

InitBulk ==
    /\ cval = MkNullArray
    /\ cwire \in {<<36>> \o l \o CRLF \o d : l \in BulkLengths, d \in BulkTails}
    /\ cres = NoResult
    /\ cpc = "wire"
    /\ ExecIdle
    /\ ServerIdle

SpecBulk == InitBulk /\ [][CodecParse]_vars

\* the length line of the bytes parsed and the bytes after it
BulkHeader == readLine(Tail(cwire))

\* C33: Parse of a bulk string of declared length n >= 0 succeeds exactly
\* when n bytes and then CR LF follow the length line, and returns those n
\* bytes; length -1 gives the null bulk string; a length below -1 and a
\* length that is no decimal number fail
C33_BulkExactLength ==
    cpc = "parsed" =>
        LET length == Atoi(BulkHeader.line)
            d == BulkHeader.rest
        IN  IF ~length.ok \/ length.n < -1 THEN cres.err # NilErr
            ELSE IF length.n = -1
                 THEN cres.err = NilErr /\ cres.val = MkNullBulkString
            ELSE IF Len(d) >= length.n + 2
                    /\ SubSeq(d, length.n + 1, length.n + 2) = CRLF
                 THEN /\ cres.err = NilErr
                      /\ cres.val = MkBulkString(SubSeq(d, 1, length.n))
                 ELSE cres.err # NilErr

\* "$1\r\naa\r\n" parsed: declared length 1, two bytes before CR LF, and
\* Parse has returned the bulk string "a"
C33_Witness ==
    /\ cpc = "parsed"
    /\ cwire = <<36, 49>> \o CRLF \o <<97, 97>> \o CRLF
    /\ cres.err = NilErr
    /\ cres.val = MkBulkString(<<97>>)

(***************************************************************************)
(* Two values on one stream: cval holds the pair as the elements of an     *)
(* array, cwire their serializations one after the other, and Parse is     *)
(* called twice on the reader.                                             *)
(***************************************************************************)
PairArrays ==
    {MkArray(<<a, b>>) : a, b \in ElemSamples}
      \cup {MkArray(<<MkArray(<<a>>), b>>) : a, b \in ElemSamples}
PairValues == LeafValues \cup PairArrays

InitPair ==
    /\ cval \in {MkArray(<<v1, v2>>) : v1, v2 \in PairValues}
    /\ cwire = <<>>
    /\ cres = NoResult
    /\ cpc = "build"
    /\ ExecIdle
    /\ ServerIdle

\* the bytes of Serialize(v1) followed by the bytes of Serialize(v2)
PairSerialize ==
    /\ cpc = "build"
    /\ cwire' = Serialize(cval.Array[1]) \o Serialize(cval.Array[2])
    /\ cpc' = "wire"
    /\ UNCHANGED <<cval, cres>>
    /\ UNCHANGED execVars
    /\ UNCHANGED serverVars

\* parser.Parse(reader), the first call
PairParseFirst ==
    /\ cpc = "wire"
    /\ cres' = Parse(cwire)
    /\ cpc' = "first"
    /\ UNCHANGED <<cval, cwire>>
    /\ UNCHANGED execVars
    /\ UNCHANGED serverVars

\* parser.Parse(reader), the second call, on what the first left unread
PairParseSecond ==
    /\ cpc = "first"
    /\ cres' = [first |-> cres, second |-> Parse(cres.rest)]
    /\ cpc' = "parsed"
    /\ UNCHANGED <<cval, cwire>>
    /\ UNCHANGED execVars
    /\ UNCHANGED serverVars

NextPair == PairSerialize \/ PairParseFirst \/ PairParseSecond

SpecPair == InitPair /\ [][NextPair]_vars

NullsAndEmpties ==
    {MkNullBulkString, MkBulkString(<<>>), MkNullArray, MkArray(<<>>)}

\* C35: Serialize gives the null bulk string, the empty bulk string, the
\* null array and the empty array four different encodings, and Parse gives
\* back for each encoding a value of the same variant and null-ness, equal
\* to none of the values parsed from the other three
C35_NullsAndEmptiesDistinct ==
    (cpc = "parsed" /\ cval \in NullsAndEmpties) =>
        /\ cres.err = NilErr
        /\ cres.val.Type = cval.Type
        /\ cres.val.Null = cval.Null
        /\ \A w \in NullsAndEmpties \ {cval} :
              /\ cwire # Serialize(w)
              /\ Parse(Serialize(w)).err = NilErr
              /\ ~respValuesEqual(cres.val, Parse(Serialize(w)).val)

\* "*-1\r\n", the encoding of the null array, parsed to a null array
C35_Witness ==
    /\ cpc = "parsed"
    /\ cval = MkNullArray
    /\ cwire = <<42, 45, 49>> \o CRLF
    /\ cres.val.Type = "Array"
    /\ cres.val.Null

(***************************************************************************)
(* The identifiers of the manager.  generateConnectionID formats 8 bytes   *)
(* taken from rand.Read, whose error it ignores, and AddConnection stores  *)
(* the record under the identifier without a look at the map: here the     *)
(* identifier is any of Ids, where generateConnectionID(n) above stands    *)
(* for draws that all differ.                                              *)
(***************************************************************************)
\* cm.AddConnection(conn) on transport c, the identifier drawn
MgrAddConnectionDrawn(c) ==
    /\ sess[c].pc = "idle"
    /\ IF srv.maxClients > 0 /\ Cardinality(DOMAIN conns) >= srv.maxClients
       THEN /\ sess' = [sess EXCEPT ![c].pc = "full"]
            /\ UNCHANGED <<conns, net, issued>>
       ELSE \E id \in Ids :
                /\ conns' = [i \in DOMAIN conns \cup {id} |->
                               IF i = id THEN c ELSE conns[i]]
                /\ sess' = [sess EXCEPT ![c].pc = "held", ![c].id = id]
                /\ net' = [net EXCEPT ![c].lastActive = srv.now]
                /\ issued' = issued + 1
    /\ UNCHANGED srv
    /\ UNCHANGED execVars
    /\ UNCHANGED codecVars

NextIds ==
    \/ \E c \in MgrConns : MgrAddConnectionDrawn(c)
    \/ \E id \in Ids : MgrRemoveConnection(id)
    \/ MgrCloseAllConnections

SpecIds == InitMgr /\ [][NextIds]_vars

\* C36: a call of AddConnection that returns a record gives it an
\* identifier no tracked record has, and leaves every tracked record
\* tracked under its identifier
C36_FreshIdentifier ==
    [][\A c \in MgrConns :
         (sess[c].pc = "idle" /\ sess'[c].pc = "held") =>
             /\ \E id \in Ids \ DOMAIN conns : id = sess'[c].id
             /\ \A i \in DOMAIN conns :
                   i \in DOMAIN conns' /\ conns'[i] = conns[i]]_vars

\* transports 1 and 2 were both registered and got the same identifier:
\* the map holds the record of 2 under it, and the open transport 1 is
\* tracked under no identifier
C36_Witness ==
    /\ sess[1].pc = "held" /\ sess[2].pc = "held"
    /\ sess[1].id = sess[2].id
    /\ GetConnection(sess[1].id) = 2
    /\ ~net[1].serverClosed
    /\ \A i \in DOMAIN conns : conns[i] # 1

(***************************************************************************)
(* The bytes of the answers.  One client, which writes a SET, a command    *)
(* whose name holds CR LF, the bytes CR and LF where a marker is expected, *)
(* and a bulk string with a length that is no number.                      *)
(***************************************************************************)
\* the command name "a\r\n"
BrokenName == <<97, CR, LF>>

WireInputs ==
    {RequestBytes(SET, <<ClientKey(1), ClientValue(1)>>),
     RequestBytes(BrokenName, <<>>),
     <<CR>>, <<LF>>, BadLength}

InitWire ==
    /\ cval = MkNullArray
    /\ cwire = <<>>
    /\ cres = NoResult
    /\ cpc = "off"
    /\ ExecIdle
    /\ ServerWith([c \in Conns |->
            CASE c = 1 -> Client([i \in 1..MaxSends |-> WireInputs], FALSE)
              [] OTHER -> NoClient])

SpecWire == InitWire /\ [][NextConc]_vars

\* the text of a SimpleString or Error holds neither CR nor LF
PlainText(v) ==
    v.Type \in {"SimpleString", "Error"} =>
        \A i \in 1..Len(v.Str) : v.Str[i] \notin {CR, LF}

\* C37: every answer a worker is about to write is a value whose text, if
\* it is a SimpleString or an Error, holds no CR and no LF, and the bytes of
\* every answer written parse to one value with no byte left over
C37_AnswersWellFormed ==
    \A c \in Conns :
        /\ sess[c].pc = "write" => PlainText(sess[c].response)
        /\ \A i \in 1..Len(net[c].outbuf) :
              LET p == Parse(net[c].outbuf[i])
              IN  p.err = NilErr /\ p.rest = <<>>

\* the answer to the command named "a\r\n" has been written: the client
\* parses an Error that ends before the name, and bytes are left over
C37_Witness ==
    /\ Len(net[1].outbuf) = 1
    /\ net[1].outbuf[1] =
          <<45>> \o ErrUnknownPrefix \o ToUpper(BrokenName) \o Quote \o CRLF
    /\ Parse(net[1].outbuf[1]).val = MkError(ErrUnknownPrefix \o <<65>>)
    /\ Parse(net[1].outbuf[1]).rest = Quote \o CRLF

(***************************************************************************)
(* EXISTS beside SET and DEL.  handleExists calls store.Exists once for    *)
(* each argument, and each call takes and releases the read lock of the    *)
(* store: a step of the worker is one such call.  i is the number of       *)
(* arguments looked up so far and count the local of that name.  Client 1  *)
(* asks EXISTS with its key twice, client 2 sets and deletes that key.     *)
(***************************************************************************)
ExistsPlan ==
    <<{RequestBytes(EXISTS, <<ClientKey(1), ClientKey(1)>>)}>>
SetDelPlan ==
    <<{RequestBytes(SET, <<ClientKey(1), ClientValue(1)>>)},
      {RequestBytes(DEL, <<ClientKey(1)>>)}>>

InitExists ==
    /\ cval = MkNullArray
    /\ cwire = <<>>
    /\ cres = NoResult
    /\ cpc = "off"
    /\ ExecIdle
    /\ ServerWith([c \in Conns |->
            CASE c = 1 -> Client(ExistsPlan, TRUE)
              [] c = 2 -> Client(SetDelPlan, TRUE)
              [] OTHER -> NoClient])

\* the worker of c is in the loop of handleExists
InExistsLoop(c) ==
    /\ sess[c].pc = "exec"
    /\ sess[c].cmd.Name = EXISTS
    /\ Len(sess[c].cmd.Args) > 0

\* one turn of the loop of handleExists: h.store.Exists(key) and count++
ExistsCall(c) ==
    /\ InExistsLoop(c)
    /\ sess[c].i < Len(sess[c].cmd.Args)
    /\ sess' = [sess EXCEPT
                  ![c].i = @ + 1,
                  ![c].count = IF Exists(data, sess[c].cmd.Args[sess[c].i + 1])
                               THEN @ + 1 ELSE @]
    /\ UNCHANGED <<conns, net, issued, srv>>
    /\ UNCHANGED execVars
    /\ UNCHANGED codecVars

\* the loop is done: handleExists returns count as an Integer
ExistsReturn(c) ==
    /\ InExistsLoop(c)
    /\ sess[c].i = Len(sess[c].cmd.Args)
    /\ sess' = [sess EXCEPT ![c].pc = "write", ![c].kind = "reply",
                            ![c].response = MkInteger(sess[c].count),
                            ![c].i = 0, ![c].count = 0]
    /\ UNCHANGED <<conns, net, issued, srv>>
    /\ UNCHANGED execVars
    /\ UNCHANGED codecVars

\* handler.Execute(cmd) of a command that makes one call of the store
ExecuteOneCall(c) == ~InExistsLoop(c) /\ ExecuteCommand(c)

NextExists ==
    \E c \in Conns :
        \/ ClientConnect(c)
        \/ ClientWrite(c)
        \/ ClientClose(c)
        \/ AcceptConnection(c)
        \/ AddConnection(c)
        \/ ReadParse(c)
        \/ ExistsCall(c)
        \/ ExistsReturn(c)
        \/ ExecuteOneCall(c)
        \/ WriteResponse(c)
        \/ RemoveConnection(c)

SpecExists == InitExists /\ [][NextExists]_vars

\* C38: the answer to EXISTS with one key given n times is the Integer 0
\* or the Integer n, whatever SET and DEL the other workers execute
\* meanwhile
C38_ExistsZeroOrAll ==
    \A c \in Conns :
        (sess[c].pc = "write" /\ sess[c].cmd.Name = EXISTS
            /\ \A k \in Range(sess[c].cmd.Args) : k = sess[c].cmd.Args[1]) =>
            sess[c].response \in
                {MkInteger(0), MkInteger(Len(sess[c].cmd.Args))}

\* the worker of client 1 is about to answer 1 to EXISTS of its key given
\* twice, and the SET of client 2 has been executed
C38_Witness ==
    /\ sess[1].pc = "write"
    /\ sess[1].cmd = Command(EXISTS, <<ClientKey(1), ClientKey(1)>>)
    /\ sess[1].response = MkInteger(1)
    /\ Exists(data, ClientKey(1))

(***************************************************************************)
(* Messages and answers.  One client, which writes a SET, the bytes "?a",  *)
(* a bulk string with a length that is no number, and an array of two      *)
(* bulk strings the first of which has such a length.                      *)
(***************************************************************************)
\* "?a"
BadMarkerThenByte == <<63, 97>>
\* "*2\r\n$x\r\n$1\r\na\r\n"
BadFirstElement ==
    <<42, 50>> \o CRLF \o BadLength \o Serialize(MkBulkString(<<97>>))

FrameInputs ==
    {RequestBytes(SET, <<ClientKey(1), ClientValue(1)>>),
     BadMarkerThenByte, BadLength, BadFirstElement}

InitFrame ==
    /\ cval = MkNullArray
    /\ cwire = <<>>
    /\ cres = NoResult
    /\ cpc = "off"
    /\ ExecIdle
    /\ ServerWith([c \in Conns |->
            CASE c = 1 -> Client([i \in 1..MaxSends |-> FrameInputs], FALSE)
              [] OTHER -> NoClient])

SpecFrame == InitFrame /\ [][NextConc]_vars

\* C39: on every connection the answers written, and the one about to be
\* written, are never more than the messages the client has sent: a
\* message is answered once, and the k-th answer is that of the k-th
\* message
C39_OneAnswerPerMessage ==
    \A c \in Conns :
        Len(net[c].outbuf) + (IF sess[c].pc = "write" THEN 1 ELSE 0)
            <= net[c].sent

\* the client has sent the one message "?a" and two answers have been
\* written to it
C39_Witness ==
    /\ net[1].sent = 1
    /\ net[1].wrote = BadMarkerThenByte
    /\ Len(net[1].outbuf) = 2

(***************************************************************************)
(* Stop called twice: by the goroutine of setupSignalHandling and by the   *)
(* deferred srv.Stop() of the caller of Start, one after the other or at   *)
(* once.  The second call runs the statements of Stop like the first.      *)
(***************************************************************************)
\* the second Stop: s.cancel(), which does nothing on a cancelled context
StopAgainCancel ==
    /\ srv.again = "idle"
    /\ ~srv.panicked
    /\ srv' = [srv EXCEPT !.cancelled = TRUE, !.again = "listener",
                          !.before = IF srv.cancelled THEN @ ELSE issued]
    /\ UNCHANGED <<conns, sess, net, issued>>
    /\ UNCHANGED execVars
    /\ UNCHANGED codecVars

\* the second Stop: s.listener.Close(), whose error is dropped
StopAgainCloseListener ==
    /\ srv.again = "listener"
    /\ ~srv.panicked
    /\ srv' = [srv EXCEPT !.listening = FALSE, !.again = "closeAll"]
    /\ UNCHANGED <<conns, sess, net, issued>>
    /\ UNCHANGED execVars
    /\ UNCHANGED codecVars

\* the second Stop: s.connManager.CloseAllConnections()
StopAgainCloseAll ==
    /\ srv.again = "closeAll"
    /\ ~srv.panicked
    /\ net' = [c \in Conns |->
                 IF c \in {conns[i] : i \in DOMAIN conns}
                 THEN [net[c] EXCEPT !.serverClosed = TRUE, !.closes = @ + 1]
                 ELSE net[c]]
    /\ conns' = <<>>
    /\ srv' = [srv EXCEPT !.again = "wait"]
    /\ UNCHANGED <<sess, issued>>
    /\ UNCHANGED execVars
    /\ UNCHANGED codecVars

\* the second Stop: wg.Wait() has returned or the 10 seconds have passed;
\* close(s.shutdown)
StopAgainClose ==
    /\ srv.again = "wait"
    /\ ~srv.panicked
    /\ srv' = IF srv.reported
              THEN [Panic EXCEPT !.timedOut = IF srv.wg # 0 THEN TRUE ELSE @]
              ELSE [srv EXCEPT !.again = "done", !.reported = TRUE,
                               !.timedOut = IF srv.wg # 0 THEN TRUE ELSE @]
    /\ UNCHANGED <<conns, sess, net, issued>>
    /\ UNCHANGED execVars
    /\ UNCHANGED codecVars

NextStopTwice ==
    \/ ~srv.panicked /\ NextStop
    \/ StopAgainCancel
    \/ StopAgainCloseListener
    \/ StopAgainCloseAll
    \/ StopAgainClose

SpecStopTwice == InitLife /\ [][NextStopTwice]_vars

\* C40: however many times Stop is called, no call panics, and once the
\* shutdown channel is closed it stays closed
C40_StopTwiceSafe ==
    /\ ~srv.panicked
    /\ srv.stop = "done" \/ srv.again = "done" => srv.reported

\* the first Stop has returned and closed the shutdown channel; the
\* second, called after it, has reached close(s.shutdown) and panicked
C40_Witness ==
    /\ srv.stop = "done"
    /\ srv.again = "wait"
    /\ srv.reported
    /\ srv.panicked

====
